---- MODULE Spec2Model ----
(***************************************************************************)
(* site2pdf: the section tree builder (list-sections.ts), the section      *)
(* splitter and the per-section PDF assembly (index.ts).                   *)
(*                                                                         *)
(* Strings are sequences of one-character strings.  The character "O"      *)
(* stands for a whole origin "https://host": it is what makes a string an  *)
(* absolute URL that `new URL(...)` accepts.                               *)
(***************************************************************************)
EXTENDS Integers, Sequences, FiniteSets, TLC

(***************************************************************************)
(* String helpers (String.prototype.startsWith, includes, split('#')[0],   *)
(* replace(/\/+$/, '')).                                                   *)
(***************************************************************************)
startsWith(s, p) ==
    /\ Len(p) <= Len(s)
    /\ SubSeq(s, 1, Len(p)) = p

includes(s, c) == \E i \in 1..Len(s) : s[i] = c

\* index of the first character of s that is in cs, Len(s)+1 when there is none
firstIndexOf(s, cs) ==
    IF \E i \in 1..Len(s) : s[i] \in cs
    THEN CHOOSE i \in 1..Len(s) : s[i] \in cs /\ \A j \in 1..(i-1) : s[j] \notin cs
    ELSE Len(s) + 1

\* s.split('#')[0]
beforeHash(s) == SubSeq(s, 1, firstIndexOf(s, {"#"}) - 1)

\* s.replace(/\/+$/, '')
RECURSIVE stripTrailingSlashes(_)
stripTrailingSlashes(s) ==
    IF Len(s) > 0 /\ s[Len(s)] = "/"
    THEN stripTrailingSlashes(SubSeq(s, 1, Len(s) - 1))
    ELSE s

(***************************************************************************)
(* new URL(url): succeeds exactly on absolute URLs.  The parsed URL is     *)
(* origin + pathname + search + hash; an empty path of an http(s) URL is   *)
(* "/" (also after `pathname = ''`).                                       *)
(***************************************************************************)
urlParses(url) == Len(url) > 0 /\ url[1] = "O"

parseURL(url) ==
    LET hostEnd == firstIndexOf(url, {"/", "?", "#"})
        rest    == SubSeq(url, hostEnd, Len(url))
        pathEnd == firstIndexOf(rest, {"?", "#"})
        afterP  == SubSeq(rest, pathEnd, Len(rest))
        qEnd    == firstIndexOf(afterP, {"#"})
        path    == SubSeq(rest, 1, pathEnd - 1)
    IN  [ origin   |-> SubSeq(url, 1, hostEnd - 1),
          pathname |-> IF path = <<>> THEN <<"/">> ELSE path,
          search   |-> SubSeq(afterP, 1, qEnd - 1),
          hash     |-> SubSeq(afterP, qEnd, Len(afterP)) ]

\* the pathname setter of an http(s) URL
setPathname(u, p) == [u EXCEPT !.pathname = IF p = <<>> THEN <<"/">> ELSE p]

urlToString(u) == u.origin \o u.pathname \o u.search \o u.hash

\* faulty variant: the first version of normalizeURL, one trailing "/" is removed
normalizeURLFirstVersion(url) ==
    LET urlWithoutAnchor == beforeHash(url)
    IN  IF Len(urlWithoutAnchor) > 0 /\ urlWithoutAnchor[Len(urlWithoutAnchor)] = "/"
        THEN SubSeq(urlWithoutAnchor, 1, Len(urlWithoutAnchor) - 1)
        ELSE urlWithoutAnchor

normalizeURL(url) ==
    IF urlParses(url)
    THEN LET parsedUrl == parseURL(url)
             p1 == setPathname(parsedUrl, stripTrailingSlashes(parsedUrl.pathname))
             p2 == [p1 EXCEPT !.hash = <<>>]
         IN  urlToString(p2)
    ELSE stripTrailingSlashes(beforeHash(url))

\* faulty variant: without the catch block, the error of new URL(url) leaves the function
normalizeURLWithoutCatch(url) ==
    [threw |-> ~urlParses(url), value |-> IF urlParses(url) THEN normalizeURL(url) ELSE <<>>]

\* how a call of normalizeURL ends: both the try block and the catch block return
normalizeURLOutcome(url) == [threw |-> FALSE, value |-> normalizeURL(url)]

(***************************************************************************)
(* RegExp.  The inclusion patterns of a run have the shape ^literal.* :    *)
(* the default pattern of main is ^escapeRegExp(mainURL).* and the usage   *)
(* documents "<main_url>/.*" as the pattern argument.                      *)
(***************************************************************************)
prefixPattern(lit) == [kind |-> "prefix", lit |-> lit]

patternTest(pattern, s) == startsWith(s, pattern.lit)

\* str.replace(/[.*+?^${}()|[\]\\]/g, '\\$&'): "(" stands for the metacharacters, the
\* token "\\(" for an escaped one
escapeRegExp(str) == [i \in 1..Len(str) |-> IF str[i] = "(" THEN "\\(" ELSE str[i]]

\* the text that a pattern source without metacharacters matches
literalOf(src) == [i \in 1..Len(src) |-> IF src[i] = "\\(" THEN "(" ELSE src[i]]

\* faulty variant: a constructor that accepts every source
compileRegExpLenient(src) == [threw |-> FALSE, pattern |-> prefixPattern(literalOf(src))]

\* new RegExp(`^${src}.*`): an unescaped, unclosed "(" is a SyntaxError
compileRegExp(src) ==
    IF includes(src, "(")
    THEN [threw |-> TRUE, pattern |-> prefixPattern(<<>>)]
    ELSE [threw |-> FALSE, pattern |-> prefixPattern(literalOf(src))]

(***************************************************************************)
(* SectionNode = { url, children }                                         *)
(***************************************************************************)
SectionNode(url, children) == [url |-> url, children |-> children]

isLeafNode(n) == Len(n.children) = 0

hasChildren(n) == Len(n.children) > 0

\* faulty variant: the filter on childless children is missing
RECURSIVE leafChildrenOfAll(_)
leafChildrenOfAll(children) ==
    IF children = <<>> THEN <<>>
    ELSE <<SectionNode(normalizeURL(Head(children).url), <<>>)>> \o leafChildrenOfAll(Tail(children))

\* node.children.filter(child => child.children.length === 0)
\*              .map(child => ({ url: normalizeURL(child.url), children: [] }))
RECURSIVE leafChildrenOf(_)
leafChildrenOf(children) ==
    IF children = <<>> THEN <<>>
    ELSE LET child == Head(children)
         IN  IF Len(child.children) = 0
             THEN <<SectionNode(normalizeURL(child.url), <<>>)>> \o leafChildrenOf(Tail(children))
             ELSE leafChildrenOf(Tail(children))

\* faulty variant: child.children.length > 1
subsectionChildrenMoreThanOne(children) ==
    LET moreThanOne(n) == Len(n.children) > 1
    IN  SelectSeq(children, moreThanOne)

\* node.children.filter(child => child.children.length > 0)
subsectionChildrenOf(children) == SelectSeq(children, hasChildren)

\* faulty variant: the root is a section only when it has children
emitsSectionWithoutRoot(node, depth) == Len(node.children) > 0

\* if (isSection || depth === 0)
emitsSection(node, depth) == Len(node.children) > 0 \/ depth = 0

RECURSIVE splitSectionTrees(_, _, _)
RECURSIVE splitSubsections(_, _, _)
splitSectionTrees(node, sections, depth) ==
    LET normalizedUrl == normalizeURL(node.url)
        pushed == IF emitsSection(node, depth)
                  THEN Append(sections, SectionNode(normalizedUrl, leafChildrenOf(node.children)))
                  ELSE sections
    IN  splitSubsections(subsectionChildrenOf(node.children), pushed, depth)

\* for (const child of subsectionChildren) splitSectionTrees(child, sections, depth + 1)
splitSubsections(subs, sections, depth) ==
    IF subs = <<>> THEN sections
    ELSE splitSubsections(Tail(subs), splitSectionTrees(Head(subs), sections, depth + 1), depth)

(***************************************************************************)
(* String.prototype.localeCompare on the characters used here: the primary *)
(* weight orders punctuation before letters and ignores case, the tertiary *)
(* weight puts a lower-case letter before its upper-case form.  A string   *)
(* that is a proper prefix of another sorts before it.                     *)
(***************************************************************************)
primaryWeight(c) ==
    CASE c = "?" -> 1
      [] c = "/" -> 2
      [] c = "#" -> 3
      [] c = "a" -> 10
      [] c = "b" -> 11
      [] c = "B" -> 11
      [] c = "c" -> 12
      [] c = "O" -> 13
      [] c = "r" -> 14
      [] OTHER   -> 20

tertiaryWeight(c) == IF c = "B" THEN 1 ELSE 0

primaryWeights(s) == [i \in 1..Len(s) |-> primaryWeight(s[i])]

tertiaryWeights(s) == [i \in 1..Len(s) |-> tertiaryWeight(s[i])]

\* lexicographic comparison of two weight sequences: -1, 0 or 1
RECURSIVE compareWeights(_, _)
compareWeights(a, b) ==
    IF a = <<>> /\ b = <<>> THEN 0
    ELSE IF a = <<>> THEN -1
    ELSE IF b = <<>> THEN 1
    ELSE IF Head(a) < Head(b) THEN -1
    ELSE IF Head(a) > Head(b) THEN 1
    ELSE compareWeights(Tail(a), Tail(b))

localeCompare(a, b) ==
    LET p == compareWeights(primaryWeights(a), primaryWeights(b))
    IN  IF p # 0 THEN p ELSE compareWeights(tertiaryWeights(a), tertiaryWeights(b))

\* Array.prototype.sort((a, b) => a.localeCompare(b)): a stable sort
RECURSIVE insertSorted(_, _)
insertSorted(sorted, x) ==
    IF sorted = <<>> THEN <<x>>
    ELSE IF localeCompare(Head(sorted), x) <= 0
         THEN <<Head(sorted)>> \o insertSorted(Tail(sorted), x)
         ELSE <<x>> \o sorted

\* faulty variant: (a, b) => b.localeCompare(a)
RECURSIVE insertSortedDescending(_, _)
insertSortedDescending(sorted, x) ==
    IF sorted = <<>> THEN <<x>>
    ELSE IF localeCompare(x, Head(sorted)) <= 0
         THEN <<Head(sorted)>> \o insertSortedDescending(Tail(sorted), x)
         ELSE <<x>> \o sorted

RECURSIVE sortDescending(_)
sortDescending(xs) ==
    IF xs = <<>> THEN <<>>
    ELSE insertSortedDescending(sortDescending(SubSeq(xs, 1, Len(xs) - 1)), xs[Len(xs)])

\* the UTF-16 code unit of a character ("O", an origin, begins with "h")
codeUnit(c) ==
    CASE c = "#" -> 35
      [] c = "-" -> 45
      [] c = "/" -> 47
      [] c = "?" -> 63
      [] c = "B" -> 66
      [] c = "a" -> 97
      [] c = "b" -> 98
      [] c = "c" -> 99
      [] c = "O" -> 104
      [] c = "r" -> 114
      [] OTHER   -> 127

codeUnits(s) == [i \in 1..Len(s) |-> codeUnit(s[i])]

\* the order of the < operator on strings: by code units
codeUnitCompare(a, b) == compareWeights(codeUnits(a), codeUnits(b))

\* faulty variant: .sort() without a comparator, the order of the code units
RECURSIVE insertSortedByCodeUnit(_, _)
insertSortedByCodeUnit(sorted, x) ==
    IF sorted = <<>> THEN <<x>>
    ELSE IF codeUnitCompare(Head(sorted), x) <= 0
         THEN <<Head(sorted)>> \o insertSortedByCodeUnit(Tail(sorted), x)
         ELSE <<x>> \o sorted

RECURSIVE sortByCodeUnit(_)
sortByCodeUnit(xs) ==
    IF xs = <<>> THEN <<>>
    ELSE insertSortedByCodeUnit(sortByCodeUnit(SubSeq(xs, 1, Len(xs) - 1)), xs[Len(xs)])

RECURSIVE sortByLocaleCompare(_)
sortByLocaleCompare(xs) ==
    IF xs = <<>> THEN <<>>
    ELSE insertSorted(sortByLocaleCompare(SubSeq(xs, 1, Len(xs) - 1)), xs[Len(xs)])

\* [...new Set(xs)]: the first occurrence of every element, in order
RECURSIVE dedupe(_)
dedupe(xs) ==
    IF xs = <<>> THEN <<>>
    ELSE LET front == dedupe(SubSeq(xs, 1, Len(xs) - 1))
             x     == xs[Len(xs)]
         IN  IF \E i \in 1..Len(front) : front[i] = x THEN front ELSE Append(front, x)

RECURSIVE mapNormalizeURL(_)
mapNormalizeURL(xs) ==
    IF xs = <<>> THEN <<>> ELSE <<normalizeURL(Head(xs))>> \o mapNormalizeURL(Tail(xs))

(***************************************************************************)
(* The pages of the site.  MainArg is the <main_url> argument.             *)
(***************************************************************************)
R   == <<"O", "/", "r">>
A   == <<"O", "/", "r", "/", "a">>
AB  == <<"O", "/", "r", "/", "a", "/", "b">>
ABC == <<"O", "/", "r", "/", "a", "/", "b", "/", "c">>

MainArg == <<"O", "/", "r", "/">>

\* the hrefs an anchor of a page may carry
Hrefs == {R, A, AB, ABC}

\* the url_pattern argument: absent, "<main_url>/.*", or "<main_url>/(.*", which does
\* not compile
PatternArgs == {"none", "subtree", "invalid"}

\* the anchors of all pages of one site together
MaxAnchors == 3

\* the navigations of one run that meet a failure
MaxFaults == 1

\* the attempts of a navigation retry loop
MaxAttempts == 5

\* failed navigation attempts before a page loads: it loads at once, after one
\* failure, or not within MaxAttempts attempts
NavFailCounts == {0, 1, MaxAttempts}

SeqsUpTo(S, n) == UNION {[1..k -> S] : k \in 0..n}

\* no tree yet: no page has the empty URL
NoTree == [url |-> <<>>, children |-> <<>>]

VARIABLES
    pc,            \* where main is
    mainURL,       \* const mainURL = normalizeURL(args[0])
    urlPattern,    \* the inclusion pattern of the run
    browser,       \* "none", "open", "closed"
    site,          \* url -> the hrefs of the anchors of the page, for the pages reached
    visited,       \* buildSectionTree: visited
    stack,         \* the active calls of buildSectionTree, innermost last
    fetchLog,      \* the calls of getSectionLinks: url, depth, failed attempts, result
    sectionTree,   \* the tree buildSectionTree returned
    sectionTrees,  \* the result of splitSectionTrees
    sec,           \* generatePDF: index of the section being assembled
    urls,          \* generatePDF: the sorted URL list of the section
    processedUrls, \* generatePDF: processedUrls of the section
    pdfDoc,        \* generatePDF: the URLs whose pages pdfDoc holds, in order
    renderLog,     \* the calls of generateSinglePDF: section, url, result
    files,         \* the files written: section, slug, pages
    reported,      \* the sections logged as "No pages generated"
    faults,        \* navigations that met a failure so far
    arg,           \* a direct call of an exported function: its argument
    ret,           \* a direct call of an exported function: what the calls returned
    tasks,         \* generatePDF at the grain of navigations: the calls of crawlLinks,
                   \* buildSectionTree and generateSinglePDF made so far
    visit,         \* one call of getSectionLinks, crawlLinks or generateSinglePDF at
                   \* the grain of its awaits: its locals and where it is
    events         \* what that call has done to its page, in order

vars == <<pc, mainURL, urlPattern, browser, site, visited, stack, fetchLog,
          sectionTree, sectionTrees, sec, urls, processedUrls, pdfDoc,
          renderLog, files, reported, faults, arg, ret, tasks, visit, events>>

buildVars == <<site, visited, stack, fetchLog, sectionTree, faults>>

assembleVars == <<sectionTrees, sec, urls, processedUrls, pdfDoc, renderLog, files, reported>>

apiVars == <<arg, ret>>

crawlVars == <<tasks>>

visitVars == <<visit, events>>

(***************************************************************************)
(* getSectionLinks(page, url, urlPattern).  env is what the browser meets: *)
(* navFails failed attempts of page.goto before it would load, and the     *)
(* hrefs of the anchors the page shows.  One page.goto is issued; whatever *)
(* is thrown is caught and [] returned.                                    *)
(***************************************************************************)
\* faulty variant: the links are filtered by the pattern alone
extractLinksByPatternOnly(url, pattern, anchors) ==
    LET matches(href) == patternTest(pattern, href)
        sectionLinks  == SelectSeq(anchors, matches)
        keep(link)    == ~includes(link, "#") /\ patternTest(pattern, link)
    IN  SelectSeq(dedupe(mapNormalizeURL(sectionLinks)), keep)

extractLinks(url, pattern, anchors) ==
    LET matches(href) == patternTest(pattern, href)
        sectionLinks  == SelectSeq(anchors, matches)
        keep(link)    == startsWith(link, url) /\ ~includes(link, "#") /\ patternTest(pattern, link)
    IN  SelectSeq(dedupe(mapNormalizeURL(sectionLinks)), keep)

\* faulty variant: the catch block rethrows
getSectionLinksRethrows(url, pattern, env) ==
    IF env.navFails > 0
    THEN [threw |-> TRUE, links |-> <<>>]
    ELSE [threw |-> FALSE, links |-> extractLinks(url, pattern, env.anchors)]

getSectionLinks(url, pattern, env) ==
    IF env.navFails > 0
    THEN [threw |-> FALSE, links |-> <<>>]
    ELSE [threw |-> FALSE, links |-> extractLinks(url, pattern, env.anchors)]

\* if (depth <= 1)
scrapesAt(depth) == depth <= 1

\* faulty variant: only children that have children are kept
pushesChildOnlyParents(pattern, childNode) == Len(childNode.children) > 0

\* if (childNode.children.length > 0 || urlPattern.test(childNode.url)) children.push(childNode)
pushesChild(pattern, childNode) ==
    Len(childNode.children) > 0 \/ patternTest(pattern, childNode.url)

\* faulty variant: the visited check is missing
neverSkipsVisited(vis, normalizedUrl) == FALSE

\* if (visited.has(normalizedUrl)) return { url: normalizedUrl, children: [] }
skipsVisited(vis, normalizedUrl) == normalizedUrl \in vis

Frame(url, depth, todo) == [url |-> url, depth |-> depth, todo |-> todo, children |-> <<>>]

(***************************************************************************)
(* generateSinglePDF(ctx, url, contentDiv).  env: navFails failed attempts *)
(* of newPage.goto before the page would load, whether contentDiv appears, *)
(* whether newPage.pdf succeeds.  Up to MaxAttempts attempts; every error  *)
(* is caught and an empty buffer returned.                                 *)
(***************************************************************************)
generateSinglePDF(url, env) ==
    LET pageLoaded == env.navFails < MaxAttempts
        attempts   == IF pageLoaded THEN env.navFails + 1 ELSE MaxAttempts
    IN  [ attempts |-> attempts,
          pages    |-> IF pageLoaded /\ env.contentFound /\ env.pdfOk THEN 1 ELSE 0 ]

\* faulty variant: the buffer is merged whatever its length
mergesBufferAlways(pdfBuffer) == TRUE

\* if (pdfBuffer.length > 0): the pages of the buffer are copied into pdfDoc
mergesBuffer(pdfBuffer) == pdfBuffer.pages > 0

\* faulty variant: the file is written whatever the page count
writesFileAlways(finalPageCount) == TRUE

\* if (finalPageCount > 0): the section's file is written
writesFile(finalPageCount) == finalPageCount > 0

(***************************************************************************)
(* generateSlug(url)                                                       *)
(***************************************************************************)
isWordChar(c) == c \in {"a", "b", "c", "r", "h", "B"}

toLowerCase(c) == IF c = "B" THEN "b" ELSE c

\* .replace(/https?:\/\//, "") leaves the host, then .replace(/[^\w\s-]/g, "-")
RECURSIVE slugChars(_)
slugChars(s) ==
    IF s = <<>> THEN <<>>
    ELSE LET c == Head(s)
             d == IF c = "O" THEN "h" ELSE IF isWordChar(c) \/ c = "-" THEN c ELSE "-"
         IN  <<d>> \o slugChars(Tail(s))

\* .replace(/-+/g, "-")
RECURSIVE collapseDashes(_)
collapseDashes(s) ==
    IF Len(s) < 2 THEN s
    ELSE IF s[1] = "-" /\ s[2] = "-" THEN collapseDashes(Tail(s))
    ELSE <<s[1]>> \o collapseDashes(Tail(s))

\* .replace(/^-|-$/g, "")
trimDash(s) ==
    LET t == IF Len(s) > 0 /\ s[1] = "-" THEN Tail(s) ELSE s
    IN  IF Len(t) > 0 /\ t[Len(t)] = "-" THEN SubSeq(t, 1, Len(t) - 1) ELSE t

generateSlug(url) ==
    LET t == trimDash(collapseDashes(slugChars(url)))
    IN  [i \in 1..Len(t) |-> toLowerCase(t[i])]

(***************************************************************************)
(* main (index.ts), --split-sections                                       *)
(***************************************************************************)
Init ==
    /\ pc = "main"
    /\ mainURL = <<>>
    /\ urlPattern = prefixPattern(<<>>)
    /\ browser = "none"
    /\ site = <<>>
    /\ visited = {}
    /\ stack = <<>>
    /\ fetchLog = <<>>
    /\ sectionTree = NoTree
    /\ sectionTrees = <<>>
    /\ sec = 0
    /\ urls = <<>>
    /\ processedUrls = {}
    /\ pdfDoc = <<>>
    /\ renderLog = <<>>
    /\ files = <<>>
    /\ reported = <<>>
    /\ faults = 0
    /\ visit = <<>>
    /\ events = <<>>
    /\ arg = <<>>
    /\ ret = <<>>
    /\ tasks = <<>>

\* const mainURL = normalizeURL(args[0]); urlPattern = new RegExp(args[1] or `^${escapeRegExp(mainURL)}.*`)
urlPatternStr(url, patternArg) ==
    CASE patternArg = "none"    -> escapeRegExp(url)
      [] patternArg = "subtree" -> MainArg
      [] patternArg = "invalid" -> MainArg \o <<"(">>

\* how main ended: the error it threw, or "done"
Threw(message) == <<[threw |-> TRUE, value |-> message]>>

Returned(result) == <<[threw |-> FALSE, value |-> result]>>

Main ==
    /\ UNCHANGED <<crawlVars, visitVars>>
    /\ pc = "main"
    /\ \E patternArg \in PatternArgs :
         LET compiled == compileRegExp(urlPatternStr(normalizeURL(MainArg), patternArg))
         IN  /\ arg' = [mainUrl |-> MainArg, urlPattern |-> patternArg]
             /\ mainURL' = normalizeURL(MainArg)
             /\ IF compiled.threw
                THEN \* catch: throw new Error(`Invalid urlPattern: ${error}`)
                     /\ urlPattern' = urlPattern
                     /\ ret' = Threw("Invalid urlPattern")
                     /\ pc' = "failed"
                ELSE /\ urlPattern' = compiled.pattern
                     /\ ret' = ret
                     /\ pc' = "launch"
    /\ UNCHANGED <<browser, buildVars, assembleVars>>

\* ctx = await useBrowserContext()
Launch ==
    /\ UNCHANGED <<crawlVars, visitVars>>
    /\ pc = "launch"
    /\ \E launched \in BOOLEAN :
         IF launched
         THEN browser' = "open" /\ pc' = "build" /\ ret' = ret
         ELSE browser' = browser /\ pc' = "failed" /\ ret' = Threw("launch failed")
    /\ UNCHANGED <<mainURL, urlPattern, buildVars, assembleVars, arg>>

(***************************************************************************)
(* buildSectionTree(page, url, urlPattern, visited, depth)                 *)
(***************************************************************************)
\* the anchors of the pages reached so far
anchorsUsed == LET n == Len(site)
                   RECURSIVE total(_)
                   total(i) == IF i = 0 THEN 0 ELSE Len(site[i].anchors) + total(i - 1)
               IN  total(n)

\* the link graphs over pages with at most budget anchors in all
RECURSIVE GraphsOver(_, _)
GraphsOver(pages, budget) ==
    IF pages = {} THEN { [page \in {} |-> <<>>] }
    ELSE LET page == CHOOSE page \in pages : TRUE
         IN  UNION { { (page :> anchors) @@ graph :
                         graph \in GraphsOver(pages \ {page}, budget - Len(anchors)) } :
                     anchors \in SeqsUpTo(Hrefs, budget) }

LinkGraphs == GraphsOver(Hrefs, MaxAnchors)

\* what a page shows when it is reached: the anchors the link graph of the run gives
\* it or, where the run has no fixed graph, any anchors the site still has
anchorsShown(url) ==
    IF "graph" \in DOMAIN arg
    THEN {arg.graph[url]}
    ELSE SeqsUpTo(Hrefs, MaxAnchors - anchorsUsed)

\* the awaited call returns childNode to the call below it on the stack
returnNode(childNode, callers) ==
    IF callers = <<>>
    THEN /\ sectionTree' = childNode
         /\ stack' = <<>>
         /\ pc' = "split"
    ELSE LET top == callers[Len(callers)]
             kept == IF pushesChild(urlPattern, childNode)
                     THEN Append(top.children, childNode)
                     ELSE top.children
         IN  /\ stack' = [callers EXCEPT ![Len(callers)] =
                              [top EXCEPT !.todo = Tail(top.todo), !.children = kept]]
             /\ sectionTree' = sectionTree
             /\ pc' = pc

BuildSectionTreeCall ==
    /\ UNCHANGED <<crawlVars, visitVars>>
    /\ UNCHANGED apiVars
    /\ pc = "build"
    /\ IF stack = <<>> THEN TRUE ELSE stack[Len(stack)].todo # <<>>
    /\ LET isRoot == stack = <<>>
           url    == IF isRoot THEN mainURL ELSE Head(stack[Len(stack)].todo)
           depth  == IF isRoot THEN 0 ELSE stack[Len(stack)].depth + 1
           normalizedUrl == normalizeURL(url)
       IN  IF skipsVisited(visited, normalizedUrl)
           THEN /\ returnNode(SectionNode(normalizedUrl, <<>>), stack)
                /\ UNCHANGED <<site, visited, fetchLog, faults, browser>>
           ELSE \E anchors \in anchorsShown(normalizedUrl) :
                \E navFails \in NavFailCounts :
                  /\ navFails > 0 => scrapesAt(depth) /\ faults < MaxFaults
                  /\ visited' = visited \cup {normalizedUrl}
                  /\ site' = Append(site, [url |-> normalizedUrl, anchors |-> anchors])
                  /\ faults' = IF navFails > 0 THEN faults + 1 ELSE faults
                  /\ IF scrapesAt(depth)
                     THEN LET got == getSectionLinks(normalizedUrl, urlPattern,
                                         [navFails |-> navFails, anchors |-> anchors])
                          IN  /\ fetchLog' = Append(fetchLog,
                                     [url |-> normalizedUrl, depth |-> depth,
                                      navFails |-> navFails, links |-> got.links])
                              /\ IF got.threw
                                 THEN \* nothing catches it before main: catch, finally, rethrow
                                      /\ pc' = "failed"
                                      /\ browser' = "closed"
                                      /\ UNCHANGED <<stack, sectionTree>>
                                 ELSE /\ stack' = Append(stack, Frame(normalizedUrl, depth, dedupe(got.links)))
                                      /\ UNCHANGED <<pc, browser, sectionTree>>
                     ELSE /\ stack' = Append(stack, Frame(normalizedUrl, depth, <<>>))
                          /\ UNCHANGED <<pc, browser, sectionTree, fetchLog>>
    /\ UNCHANGED <<mainURL, urlPattern, assembleVars>>

\* return { url: normalizedUrl, children }
BuildSectionTreeReturn ==
    /\ UNCHANGED <<crawlVars, visitVars>>
    /\ UNCHANGED apiVars
    /\ pc = "build"
    /\ stack # <<>>
    /\ stack[Len(stack)].todo = <<>>
    /\ LET top == stack[Len(stack)]
       IN  returnNode(SectionNode(top.url, top.children), SubSeq(stack, 1, Len(stack) - 1))
    /\ UNCHANGED <<mainURL, urlPattern, browser, site, visited, fetchLog, faults, assembleVars>>

(***************************************************************************)
(* generatePDF(..., splitSections = true)                                  *)
(***************************************************************************)
RECURSIVE childUrlsOf(_)
childUrlsOf(children) ==
    IF children = <<>> THEN <<>> ELSE <<Head(children).url>> \o childUrlsOf(Tail(children))

\* [rootUrl, ...section.children.map(child => child.url)].sort((a, b) => a.localeCompare(b))
sectionUrls(section) == sortByLocaleCompare(<<section.url>> \o childUrlsOf(section.children))

\* const sectionTrees = splitSectionTrees(sectionTree)
Split ==
    /\ UNCHANGED <<crawlVars, visitVars>>
    /\ UNCHANGED apiVars
    /\ pc = "split"
    /\ sectionTrees' = splitSectionTrees(sectionTree, <<>>, 0)
    /\ sec' = 1
    /\ pc' = "section"
    /\ UNCHANGED <<mainURL, urlPattern, browser, buildVars,
                   urls, processedUrls, pdfDoc, renderLog, files, reported>>

\* for (const section of sectionTrees): the head of the loop body
SectionStart ==
    /\ UNCHANGED <<crawlVars, visitVars>>
    /\ UNCHANGED apiVars
    /\ pc = "section"
    /\ sec <= Len(sectionTrees)
    /\ urls' = sectionUrls(sectionTrees[sec])
    /\ processedUrls' = {}
    /\ pdfDoc' = <<>>
    /\ pc' = "urls"
    /\ UNCHANGED <<mainURL, urlPattern, browser, buildVars, sectionTrees, sec, renderLog,
                   files, reported>>

\* faulty variant: no URL is taken for processed
neverSkipsProcessed(processed, sectionUrl) == FALSE

\* if (processedUrls.has(sectionUrl)) { ...; continue; }
skipsProcessed(processed, sectionUrl) == sectionUrl \in processed

\* for (const sectionUrl of urls): urls holds the URLs still to come
SectionUrl ==
    /\ UNCHANGED <<crawlVars, visitVars>>
    /\ UNCHANGED apiVars
    /\ pc = "urls"
    /\ urls # <<>>
    /\ LET sectionUrl == Head(urls)
       IN  IF skipsProcessed(processedUrls, sectionUrl)
           THEN UNCHANGED <<processedUrls, pdfDoc, renderLog, faults>>
           ELSE \E navFails \in NavFailCounts, contentFound \in BOOLEAN :
                  LET healthy   == navFails = 0 /\ contentFound
                      pdfBuffer == generateSinglePDF(sectionUrl,
                                       [navFails |-> navFails, contentFound |-> contentFound,
                                        pdfOk |-> TRUE])
                  IN  /\ ~healthy => faults < MaxFaults
                      /\ faults' = IF healthy THEN faults ELSE faults + 1
                      /\ processedUrls' = processedUrls \cup {sectionUrl}
                      /\ renderLog' = Append(renderLog,
                             [sec |-> sec, url |-> sectionUrl, pages |-> pdfBuffer.pages])
                      /\ pdfDoc' = IF mergesBuffer(pdfBuffer) THEN Append(pdfDoc, sectionUrl)
                                                              ELSE pdfDoc
    /\ urls' = Tail(urls)
    /\ UNCHANGED <<pc, mainURL, urlPattern, browser, site, visited, stack, fetchLog,
                   sectionTree, sectionTrees, sec, files, reported>>

\* finalPageCount > 0 ? writeFileSync(...) : log "No pages generated"
SectionFinish ==
    /\ UNCHANGED <<crawlVars, visitVars>>
    /\ UNCHANGED apiVars
    /\ pc = "urls"
    /\ urls = <<>>
    /\ IF writesFile(Len(pdfDoc))
       THEN /\ files' = Append(files, [sec |-> sec,
                                       slug |-> generateSlug(sectionTrees[sec].url),
                                       pages |-> pdfDoc])
            /\ reported' = reported
       ELSE /\ files' = files
            /\ reported' = Append(reported, sec)
    /\ sec' = sec + 1
    /\ pc' = "section"
    /\ UNCHANGED <<mainURL, urlPattern, browser, buildVars, sectionTrees,
                   urls, processedUrls, pdfDoc, renderLog>>

\* generatePDF returns; main: finally { await ctx?.browser.close() }
Finish ==
    /\ UNCHANGED <<crawlVars, visitVars>>
    /\ pc = "section"
    /\ sec > Len(sectionTrees)
    /\ browser' = "closed"
    /\ pc' = "done"
    /\ ret' = Returned("done")
    /\ UNCHANGED <<mainURL, urlPattern, buildVars, assembleVars, arg>>

Next ==
    \/ Main
    \/ Launch
    \/ BuildSectionTreeCall
    \/ BuildSectionTreeReturn
    \/ Split
    \/ SectionStart
    \/ SectionUrl
    \/ SectionFinish
    \/ Finish

Spec == Init /\ [][Next]_vars

(***************************************************************************)
(* splitSectionTrees on its own: any tree of up to MaxNodes nodes, its     *)
(* URLs normalized or not, and the tree of the worked scenario             *)
(*   virtualization -> [vzvirtualmachine -> [start(), state.enum -> [stopped]]] *)
(***************************************************************************)
MaxNodes == 4

TreeUrls == {R, MainArg, A}

virtualization   == R
vzvirtualmachine == A
startCall        == <<"O", "/", "r", "/", "a", "/", "c">>
stateEnum        == AB
stopped          == ABC

WorkedTree ==
    SectionNode(virtualization,
        << SectionNode(vzvirtualmachine,
              << SectionNode(startCall, <<>>),
                 SectionNode(stateEnum, << SectionNode(stopped, <<>>) >>) >>) >>)

RECURSIVE TreesOfSize(_)
RECURSIVE ForestsOfSize(_)
TreesOfSize(n) == {SectionNode(u, f) : u \in TreeUrls, f \in ForestsOfSize(n - 1)}

ForestsOfSize(m) ==
    IF m = 0 THEN {<<>>}
    ELSE UNION {{<<t>> \o f : t \in TreesOfSize(k), f \in ForestsOfSize(m - k)} : k \in 1..m}

InputTrees == UNION {TreesOfSize(n) : n \in 1..MaxNodes} \cup {WorkedTree}

InitSplit ==
    /\ pc = "split"
    /\ mainURL = <<>>
    /\ urlPattern = prefixPattern(<<>>)
    /\ browser = "open"
    /\ site = <<>>
    /\ visited = {}
    /\ stack = <<>>
    /\ fetchLog = <<>>
    /\ sectionTree \in InputTrees
    /\ sectionTrees = <<>>
    /\ sec = 0
    /\ urls = <<>>
    /\ processedUrls = {}
    /\ pdfDoc = <<>>
    /\ renderLog = <<>>
    /\ files = <<>>
    /\ reported = <<>>
    /\ faults = 0
    /\ visit = <<>>
    /\ events = <<>>
    /\ arg = <<>>
    /\ ret = <<>>
    /\ tasks = <<>>

NextSplit == Split

SpecSplit == InitSplit /\ [][NextSplit]_vars

(***************************************************************************)
(* The assembly of the sections on its own: a root and up to MaxLeaves     *)
(* childless children, as buildSectionTree returns them for a page whose   *)
(* links differ in letter case or point to the page itself.                *)
(***************************************************************************)
MaxLeaves == 3

PageUpperB == <<"O", "/", "r", "/", "B">>
PageLowerB == <<"O", "/", "r", "/", "b">>

\* the links of the root page: each starts with the root URL
LeafUrls == {R, A, PageUpperB, PageLowerB}

DistinctSeqs(S, n) ==
    {s \in SeqsUpTo(S, n) : \A i, j \in 1..Len(s) : i # j => s[i] # s[j]}

AssembleTrees ==
    { SectionNode(R, [i \in 1..Len(s) |-> SectionNode(s[i], <<>>)]) :
        s \in DistinctSeqs(LeafUrls, MaxLeaves) }

InitAssemble ==
    /\ pc = "split"
    /\ mainURL = R
    /\ urlPattern = prefixPattern(R)
    /\ browser = "open"
    /\ site = <<>>
    /\ visited = {}
    /\ stack = <<>>
    /\ fetchLog = <<>>
    /\ sectionTree \in AssembleTrees
    /\ sectionTrees = <<>>
    /\ sec = 0
    /\ urls = <<>>
    /\ processedUrls = {}
    /\ pdfDoc = <<>>
    /\ renderLog = <<>>
    /\ files = <<>>
    /\ reported = <<>>
    /\ faults = 0
    /\ visit = <<>>
    /\ events = <<>>
    /\ arg = <<>>
    /\ ret = <<>>
    /\ tasks = <<>>

NextAssemble ==
    \/ Split
    \/ SectionStart
    \/ SectionUrl
    \/ SectionFinish
    \/ Finish

SpecAssemble == InitAssemble /\ [][NextAssemble]_vars

(***************************************************************************)
(* The assembly of a tree with sections below the root: the root page      *)
(* links to one or two pages, each of which links to a page below it.  The *)
(* URLs of the pages differ in letter case, in "." against "-", or in      *)
(* more.                                                                   *)
(***************************************************************************)
PageADotB  == <<"O", "/", "r", "/", "a", ".", "b">>
PageADashB == <<"O", "/", "r", "/", "a", "-", "b">>

SlugRoots == {A, PageUpperB, PageLowerB, PageADotB, PageADashB}

MaxSections == 2

SlugTrees ==
    { SectionNode(R, [i \in 1..Len(s) |->
                        SectionNode(s[i], <<SectionNode(s[i] \o <<"/", "c">>, <<>>)>>)]) :
        s \in DistinctSeqs(SlugRoots, MaxSections) \ {<<>>} }

InitSlug ==
    /\ pc = "split"
    /\ mainURL = R
    /\ urlPattern = prefixPattern(R)
    /\ browser = "open"
    /\ site = <<>>
    /\ visited = {}
    /\ stack = <<>>
    /\ fetchLog = <<>>
    /\ sectionTree \in SlugTrees
    /\ sectionTrees = <<>>
    /\ sec = 0
    /\ urls = <<>>
    /\ processedUrls = {}
    /\ pdfDoc = <<>>
    /\ renderLog = <<>>
    /\ files = <<>>
    /\ reported = <<>>
    /\ faults = 0
    /\ visit = <<>>
    /\ events = <<>>
    /\ arg = <<>>
    /\ ret = <<>>
    /\ tasks = <<>>

SpecSlug == InitSlug /\ [][NextAssemble]_vars

(***************************************************************************)
(* normalizeURL called on any string of up to MaxLen characters, and then  *)
(* on its own result.                                                      *)
(***************************************************************************)
MaxLen == 4

UrlChars == {"O", "/", "a", "?", "#"}

NormalizeInputs == SeqsUpTo(UrlChars, MaxLen)

InitNormalize ==
    /\ pc = "call"
    /\ mainURL = <<>>
    /\ urlPattern = prefixPattern(<<>>)
    /\ browser = "none"
    /\ site = <<>>
    /\ visited = {}
    /\ stack = <<>>
    /\ fetchLog = <<>>
    /\ sectionTree = NoTree
    /\ sectionTrees = <<>>
    /\ sec = 0
    /\ urls = <<>>
    /\ processedUrls = {}
    /\ pdfDoc = <<>>
    /\ renderLog = <<>>
    /\ files = <<>>
    /\ reported = <<>>
    /\ faults = 0
    /\ visit = <<>>
    /\ events = <<>>
    /\ arg \in NormalizeInputs
    /\ ret = <<>>
    /\ tasks = <<>>

\* normalizeURL(arg), then normalizeURL of what the call before returned
NormalizeCall ==
    /\ UNCHANGED <<crawlVars, visitVars>>
    /\ pc = "call"
    /\ Len(ret) < 2
    /\ IF ret # <<>> THEN ~ret[Len(ret)].threw ELSE TRUE
    /\ ret' = Append(ret, normalizeURLOutcome(IF ret = <<>> THEN arg ELSE ret[Len(ret)].value))
    /\ UNCHANGED <<pc, mainURL, urlPattern, browser, buildVars, assembleVars, arg>>

NextNormalize == NormalizeCall

SpecNormalize == InitNormalize /\ [][NextNormalize]_vars

(***************************************************************************)
(* The places where the inclusion pattern is built: main of index.ts, the  *)
(* default value of generatePDF's urlPattern parameter, main of            *)
(* list-sections.ts.  The URL is any string of up to MaxLen characters.    *)
(***************************************************************************)
PatternPlaces == {"index.main", "generatePDF", "list-sections.main"}

PatternUrlChars == {"O", "/", "a", "("}

\* only main of index.ts takes a url_pattern argument
PatternCalls ==
    { c \in [place : PatternPlaces, url : SeqsUpTo(PatternUrlChars, MaxLen),
              urlPattern : PatternArgs] :
        c.place # "index.main" => c.urlPattern = "none" }

\* the construction of the pattern at a place: whether new RegExp threw, and what
\* becomes of the error
buildPattern(call) ==
    CASE call.place = "index.main" ->
           \* try { new RegExp(args[1] or `^${escapeRegExp(mainURL)}.*`) } catch { throw Invalid urlPattern }
           LET c == compileRegExp(urlPatternStr(normalizeURL(call.url), call.urlPattern))
           IN  [threw |-> c.threw, pattern |-> c.pattern,
                report |-> IF c.threw THEN "Invalid urlPattern" ELSE "none"]
      [] call.place = "generatePDF" ->
           \* urlPattern: RegExp = new RegExp(`^${url}`): the promise of generatePDF rejects
           LET c == compileRegExp(call.url)
           IN  [threw |-> c.threw, pattern |-> c.pattern,
                report |-> IF c.threw THEN "SyntaxError rejected" ELSE "none"]
      [] call.place = "list-sections.main" ->
           \* new RegExp(`^${baseURL.replace(/\/+$/, '')}.*`) inside try; catch logs `Error: ...`
           LET c == compileRegExp(stripTrailingSlashes(call.url))
           IN  [threw |-> c.threw, pattern |-> c.pattern,
                report |-> IF c.threw THEN "SyntaxError logged" ELSE "none"]

InitPattern ==
    /\ pc = "pattern"
    /\ mainURL = <<>>
    /\ urlPattern = prefixPattern(<<>>)
    /\ browser = "none"
    /\ site = <<>>
    /\ visited = {}
    /\ stack = <<>>
    /\ fetchLog = <<>>
    /\ sectionTree = NoTree
    /\ sectionTrees = <<>>
    /\ sec = 0
    /\ urls = <<>>
    /\ processedUrls = {}
    /\ pdfDoc = <<>>
    /\ renderLog = <<>>
    /\ files = <<>>
    /\ reported = <<>>
    /\ faults = 0
    /\ visit = <<>>
    /\ events = <<>>
    /\ arg \in PatternCalls
    /\ ret = <<>>
    /\ tasks = <<>>

BuildPattern ==
    /\ UNCHANGED <<crawlVars, visitVars>>
    /\ pc = "pattern"
    /\ ret = <<>>
    /\ ret' = <<buildPattern(arg)>>
    /\ UNCHANGED <<pc, mainURL, urlPattern, browser, buildVars, assembleVars, arg>>

NextPattern == BuildPattern

SpecPattern == InitPattern /\ [][NextPattern]_vars

(***************************************************************************)
(* generatePDF at the grain of navigations.  Every call of crawlLinks,     *)
(* buildSectionTree and generateSinglePDF is a task: "queued" until it is  *)
(* started, "nav" while its navigation is in flight, "children" while it   *)
(* waits for the calls it made, "done" when it has returned.  The calls    *)
(* are those of main, which passes concurrentLimit = 1, with and without   *)
(* --split-sections.                                                       *)
(***************************************************************************)
CrawlCalls == [caller : {"main"}, concurrentLimit : {1}, splitSections : BOOLEAN]

Task(kind, parent, url, depth, section) ==
    [kind |-> kind, parent |-> parent, url |-> url, depth |-> depth, sec |-> section,
     st |-> "queued", links |-> <<>>, result |-> <<>>, node |-> NoTree, pages |-> 0]

\* the calls made by the call p (0: by generatePDF itself), in the order they were made
childTasks(p) == {i \in 1..Len(tasks) : tasks[i].parent = p}

allDone(S) == \A j \in S : tasks[j].st = "done"

\* pLimit: the functions started and not yet settled
activeCount(p) == Cardinality({i \in childTasks(p) : tasks[i].st \in {"nav", "children"}})

\* pLimit: the queue is served in order
firstQueued(i) ==
    /\ tasks[i].st = "queued"
    /\ \A j \in childTasks(tasks[i].parent) : j < i => tasks[j].st # "queued"

\* faulty variant: a limiter that starts every function at once
admitsAlways(active, limit) == TRUE

\* pLimit(concurrentLimit): a queued function starts while fewer than limit are active
admits(active, limit) == active < limit

\* for (...) { await f(...) }: a call is made when the calls before it have returned
awaited(i) == \A j \in childTasks(tasks[i].parent) : j < i => tasks[j].st = "done"

parentWaits(i) ==
    IF tasks[i].parent = 0 THEN TRUE ELSE tasks[tasks[i].parent].st = "children"

\* the try block of crawlLinks: up to MaxAttempts navigations, then the links
crawlPage(url, pattern, env) ==
    LET pageLoaded == env.navFails < MaxAttempts
        matches(href) == patternTest(pattern, href)
        subLinks   == SelectSeq(env.anchors, matches)
    IN  [ ok       |-> pageLoaded,
          attempts |-> IF pageLoaded THEN env.navFails + 1 ELSE MaxAttempts,
          links    |-> IF pageLoaded THEN dedupe(mapNormalizeURL(subLinks)) ELSE <<>> ]

\* the results of the calls in S, in order: (await Promise.all(...)).flat()
RECURSIVE flatResults(_, _)
flatResults(ts, S) ==
    IF S = {} THEN <<>>
    ELSE LET i == CHOOSE i \in S : \A j \in S : i <= j
         IN  ts[i].result \o flatResults(ts, S \ {i})

RECURSIVE childNodes(_, _)
childNodes(ts, S) ==
    IF S = {} THEN <<>>
    ELSE LET i == CHOOSE i \in S : \A j \in S : i <= j
         IN  (IF pushesChild(urlPattern, ts[i].node) THEN <<ts[i].node>> ELSE <<>>)
                 \o childNodes(ts, S \ {i})

InitCrawl ==
    /\ pc = "crawling"
    /\ mainURL = normalizeURL(MainArg)
    /\ urlPattern = prefixPattern(normalizeURL(MainArg))
    /\ browser = "open"
    /\ site = <<>>
    /\ visited = {normalizeURL(MainArg)}
    /\ stack = <<>>
    /\ fetchLog = <<>>
    /\ sectionTree = NoTree
    /\ sectionTrees = <<>>
    /\ sec = 0
    /\ urls = <<>>
    /\ processedUrls = {}
    /\ pdfDoc = <<>>
    /\ renderLog = <<>>
    /\ files = <<>>
    /\ reported = <<>>
    /\ faults = 0
    /\ visit = <<>>
    /\ events = <<>>
    /\ arg \in CrawlCalls
    /\ ret = <<>>
    /\ tasks = << [ Task(IF arg.splitSections THEN "build" ELSE "crawl", 0,
                         normalizeURL(MainArg), 0, 0) EXCEPT !.st = "nav" ] >>

\* crawlLinks up to its first page.goto: the visited check
CrawlStart ==
  \E i \in 1..Len(tasks) :
    /\ pc = "crawling"
    /\ tasks[i].kind = "crawl"
    /\ firstQueued(i)
    /\ parentWaits(i)
    /\ admits(activeCount(tasks[i].parent), arg.concurrentLimit)
    /\ LET normalizedUrl == normalizeURL(tasks[i].url)
       IN  IF normalizedUrl \in visited
           THEN /\ tasks' = [tasks EXCEPT ![i].st = "done"]
                /\ visited' = visited
           ELSE /\ tasks' = [tasks EXCEPT ![i].st = "nav"]
                /\ visited' = visited \cup {normalizedUrl}
    /\ UNCHANGED visitVars
    /\ UNCHANGED <<pc, mainURL, urlPattern, browser, site, stack, fetchLog, sectionTree,
                   faults, assembleVars, apiVars>>

\* crawlLinks from the end of its navigation to Promise.all, or to return [] in catch
CrawlNavEnd ==
  \E i \in 1..Len(tasks) :
    /\ pc = "crawling"
    /\ tasks[i].kind = "crawl"
    /\ tasks[i].st = "nav"
    /\ \E anchors \in SeqsUpTo(Hrefs, MaxAnchors - anchorsUsed) :
       \E navFails \in NavFailCounts :
         LET got  == crawlPage(tasks[i].url, urlPattern,
                               [navFails |-> navFails, anchors |-> anchors])
             kids == [k \in 1..Len(got.links) |->
                         Task("crawl", i, got.links[k], tasks[i].depth + 1, 0)]
         IN  /\ navFails > 0 => faults < MaxFaults
             /\ faults' = IF navFails > 0 THEN faults + 1 ELSE faults
             /\ site' = Append(site, [url |-> tasks[i].url, anchors |-> anchors])
             /\ fetchLog' = fetchLog
             /\ tasks' = IF got.ok
                         THEN [tasks EXCEPT ![i].st = "children", ![i].links = got.links]
                                  \o kids
                         ELSE [tasks EXCEPT ![i].st = "done"]
    /\ UNCHANGED visitVars
    /\ UNCHANGED <<pc, mainURL, urlPattern, browser, visited, stack, sectionTree,
                   assembleVars, apiVars>>

\* return [normalizedUrl, ...nestedLinks]
CrawlReturn ==
  \E i \in 1..Len(tasks) :
    /\ pc = "crawling"
    /\ tasks[i].kind = "crawl"
    /\ tasks[i].st = "children"
    /\ allDone(childTasks(i))
    /\ tasks' = [tasks EXCEPT ![i].st = "done",
                              ![i].result = <<normalizeURL(tasks[i].url)>>
                                               \o flatResults(tasks, childTasks(i))]
    /\ UNCHANGED visitVars
    /\ UNCHANGED <<pc, mainURL, urlPattern, browser, buildVars, assembleVars, apiVars>>

\* buildSectionTree up to the page.goto of getSectionLinks: visited check, depth check
BuildStart ==
  \E i \in 1..Len(tasks) :
    /\ pc = "crawling"
    /\ tasks[i].kind = "build"
    /\ tasks[i].st = "queued"
    /\ parentWaits(i)
    /\ awaited(i)
    /\ LET normalizedUrl == normalizeURL(tasks[i].url)
           leaf == SectionNode(normalizedUrl, <<>>)
       IN  IF skipsVisited(visited, normalizedUrl)
           THEN /\ tasks' = [tasks EXCEPT ![i].st = "done", ![i].node = leaf]
                /\ visited' = visited
           ELSE /\ visited' = visited \cup {normalizedUrl}
                /\ tasks' = IF scrapesAt(tasks[i].depth)
                            THEN [tasks EXCEPT ![i].st = "nav"]
                            ELSE [tasks EXCEPT ![i].st = "done", ![i].node = leaf]
    /\ UNCHANGED visitVars
    /\ UNCHANGED <<pc, mainURL, urlPattern, browser, site, stack, fetchLog, sectionTree,
                   faults, assembleVars, apiVars>>

\* getSectionLinks from the end of its navigation, then the loop over childUrls begins
BuildNavEnd ==
  \E i \in 1..Len(tasks) :
    /\ pc = "crawling"
    /\ tasks[i].kind = "build"
    /\ tasks[i].st = "nav"
    /\ \E anchors \in SeqsUpTo(Hrefs, MaxAnchors - anchorsUsed) :
       \E navFails \in NavFailCounts :
         LET got  == getSectionLinks(tasks[i].url, urlPattern,
                                     [navFails |-> navFails, anchors |-> anchors])
             childUrls == dedupe(got.links)
             kids == [k \in 1..Len(childUrls) |->
                         Task("build", i, childUrls[k], tasks[i].depth + 1, 0)]
         IN  /\ navFails > 0 => faults < MaxFaults
             /\ faults' = IF navFails > 0 THEN faults + 1 ELSE faults
             /\ site' = Append(site, [url |-> tasks[i].url, anchors |-> anchors])
             /\ fetchLog' = fetchLog
             /\ tasks' = [tasks EXCEPT ![i].st = "children", ![i].links = childUrls] \o kids
    /\ UNCHANGED visitVars
    /\ UNCHANGED <<pc, mainURL, urlPattern, browser, visited, stack, sectionTree,
                   assembleVars, apiVars>>

\* return { url: normalizedUrl, children }
BuildReturn ==
  \E i \in 1..Len(tasks) :
    /\ pc = "crawling"
    /\ tasks[i].kind = "build"
    /\ tasks[i].st = "children"
    /\ allDone(childTasks(i))
    /\ tasks' = [tasks EXCEPT ![i].st = "done",
                              ![i].node = SectionNode(tasks[i].url,
                                              childNodes(tasks, childTasks(i)))]
    /\ UNCHANGED visitVars
    /\ UNCHANGED <<pc, mainURL, urlPattern, browser, buildVars, assembleVars, apiVars>>

\* one call of generateSinglePDF for every URL of every section, in order
RECURSIVE sectionRenderTasks(_, _)
sectionRenderTasks(sections, k) ==
    IF k > Len(sections) THEN <<>>
    ELSE LET us == sectionUrls(sections[k])
         IN  [j \in 1..Len(us) |-> Task("render", 0, us[j], 0, k)]
                 \o sectionRenderTasks(sections, k + 1)

\* the tree or the link list is there: the URL lists of the documents are made
StartRenders ==
    /\ pc = "crawling"
    /\ tasks[1].st = "done"
    /\ IF arg.splitSections
       THEN LET sections == splitSectionTrees(tasks[1].node, <<>>, 0)
            IN  /\ sectionTree' = tasks[1].node
                /\ sectionTrees' = sections
                /\ tasks' = tasks \o sectionRenderTasks(sections, 1)
       ELSE LET uniqueLinks == sortByLocaleCompare(dedupe(mapNormalizeURL(tasks[1].result)))
            IN  /\ sectionTree' = sectionTree
                /\ sectionTrees' = sectionTrees
                /\ tasks' = tasks \o [j \in 1..Len(uniqueLinks) |->
                                          Task("render", 0, uniqueLinks[j], 0, 0)]
    /\ pc' = "rendering"
    /\ UNCHANGED visitVars
    /\ UNCHANGED <<mainURL, urlPattern, browser, site, visited, stack, fetchLog, faults,
                   sec, urls, processedUrls, pdfDoc, renderLog, files, reported, apiVars>>

rendersOfSection(ts, k) == {j \in 1..Len(ts) : ts[j].kind = "render" /\ ts[j].sec = k}

\* faulty variant: the pages are merged as the renders complete
mergedPagesAsCompleted(ts, S) ==
    LET gavePages(e) == e.pages > 0 /\ \E i \in S : ts[i].url = e.url /\ ts[i].sec = e.sec
        done == SelectSeq(renderLog, gavePages)
    IN  [i \in 1..Len(done) |-> done[i].url]

\* the URLs of the renders in S that gave pages, in the order of the calls
RECURSIVE mergedPages(_, _)
mergedPages(ts, S) ==
    IF S = {} THEN <<>>
    ELSE LET i == CHOOSE i \in S : \A j \in S : i <= j
         IN  (IF ts[i].pages > 0 THEN <<ts[i].url>> ELSE <<>>) \o mergedPages(ts, S \ {i})

\* --split-sections: after the last URL of a section its file is written, if it has pages
filesAfter(ts, i) ==
    LET k == ts[i].sec
        pages == mergedPages(ts, rendersOfSection(ts, k))
    IN  IF arg.splitSections /\ (\A j \in rendersOfSection(ts, k) : j <= i) /\ writesFile(Len(pages))
        THEN Append(files, [sec |-> k, slug |-> generateSlug(sectionTrees[k].url),
                            pages |-> pages])
        ELSE files

\* faulty variant: a new set for every URL
newProcessedUrlsForEveryUrl(ts, i) == TRUE

\* const processedUrls = new Set<string>(): with --split-sections inside the loop over
\* the sections, one set for each section; without, one set for the call
newProcessedUrls(ts, i) ==
    arg.splitSections /\ (\A j \in rendersOfSection(ts, ts[i].sec) : i <= j)

\* the processedUrls check, then generateSinglePDF up to its navigation
RenderStart ==
  \E i \in 1..Len(tasks) :
    /\ pc = "rendering"
    /\ tasks[i].kind = "render"
    /\ tasks[i].st = "queued"
    /\ IF arg.splitSections
       THEN awaited(i)
       ELSE firstQueued(i) /\ admits(activeCount(0), arg.concurrentLimit)
    /\ LET seen == IF newProcessedUrls(tasks, i) THEN {} ELSE processedUrls
           link == IF arg.splitSections THEN tasks[i].url ELSE normalizeURL(tasks[i].url)
       IN  IF skipsProcessed(seen, link)
           THEN /\ tasks' = [tasks EXCEPT ![i].st = "done"]
                /\ processedUrls' = seen
                /\ files' = filesAfter(tasks', i)
           ELSE /\ tasks' = [tasks EXCEPT ![i].st = "nav"]
                /\ processedUrls' = seen \cup {link}
                /\ files' = files
    /\ UNCHANGED visitVars
    /\ UNCHANGED <<pc, mainURL, urlPattern, browser, buildVars, sectionTrees, sec, urls,
                   pdfDoc, renderLog, reported, apiVars>>

\* generateSinglePDF from the end of its navigation to its return
RenderEnd ==
  \E i \in 1..Len(tasks) :
    /\ pc = "rendering"
    /\ tasks[i].kind = "render"
    /\ tasks[i].st = "nav"
    /\ \E navFails \in NavFailCounts, contentFound \in BOOLEAN :
         LET healthy   == navFails = 0 /\ contentFound
             pdfBuffer == generateSinglePDF(tasks[i].url,
                              [navFails |-> navFails, contentFound |-> contentFound,
                               pdfOk |-> TRUE])
         IN  /\ ~healthy => faults < MaxFaults
             /\ faults' = IF healthy THEN faults ELSE faults + 1
             /\ tasks' = [tasks EXCEPT ![i].st = "done", ![i].pages = pdfBuffer.pages]
             /\ renderLog' = Append(renderLog,
                    [sec |-> tasks[i].sec, url |-> tasks[i].url, pages |-> pdfBuffer.pages])
             /\ files' = filesAfter(tasks', i)
    /\ UNCHANGED visitVars
    /\ UNCHANGED <<pc, mainURL, urlPattern, browser, site, visited, stack, fetchLog,
                   sectionTree, sectionTrees, sec, urls, processedUrls, pdfDoc, reported,
                   apiVars>>

\* generatePDF returns; main writes the single document and closes the browser
FinishRun ==
    /\ pc = "rendering"
    /\ allDone({j \in 1..Len(tasks) : tasks[j].kind = "render"})
    /\ LET merged == mergedPages(tasks, rendersOfSection(tasks, 0))
       IN  IF arg.splitSections
           THEN pdfDoc' = pdfDoc /\ files' = files
           ELSE /\ pdfDoc' = merged
                /\ files' = IF arg.caller = "main"
                            THEN Append(files, [sec |-> 0, slug |-> generateSlug(mainURL),
                                                pages |-> merged])
                            ELSE files
    /\ browser' = IF arg.caller = "main" THEN "closed" ELSE browser
    /\ ret' = Returned("done")
    /\ pc' = "done"
    /\ UNCHANGED visitVars
    /\ UNCHANGED <<mainURL, urlPattern, buildVars, sectionTrees, sec, urls, processedUrls,
                   renderLog, reported, arg, tasks>>

NextCrawl ==
    \/ CrawlStart
    \/ CrawlNavEnd
    \/ CrawlReturn
    \/ BuildStart
    \/ BuildNavEnd
    \/ BuildReturn
    \/ StartRenders
    \/ RenderStart
    \/ RenderEnd
    \/ FinishRun

SpecCrawl == InitCrawl /\ [][NextCrawl]_vars

(***************************************************************************)
(* The renders of generatePDF on their own, for a caller of the exported   *)
(* function that passes a concurrentLimit of up to MaxLimit: the crawl or  *)
(* the tree build has returned a root and up to MaxLeaves pages below it.  *)
(***************************************************************************)
MaxLimit == 2

RenderCalls == [caller : {"api"}, concurrentLimit : 1..MaxLimit, splitSections : BOOLEAN]

\* the call of crawlLinks or buildSectionTree that has returned the pages of tree
ReturnedCall(call, tree) ==
    [ Task(IF call.splitSections THEN "build" ELSE "crawl", 0, tree.url, 0, 0)
        EXCEPT !.st = "done",
               !.node = tree,
               !.result = dedupe(<<tree.url>> \o childUrlsOf(tree.children)) ]

InitRender ==
    /\ pc = "crawling"
    /\ mainURL = R
    /\ urlPattern = prefixPattern(R)
    /\ browser = "open"
    /\ site = <<>>
    /\ visited = {}
    /\ stack = <<>>
    /\ fetchLog = <<>>
    /\ sectionTree = NoTree
    /\ sectionTrees = <<>>
    /\ sec = 0
    /\ urls = <<>>
    /\ processedUrls = {}
    /\ pdfDoc = <<>>
    /\ renderLog = <<>>
    /\ files = <<>>
    /\ reported = <<>>
    /\ faults = 0
    /\ visit = <<>>
    /\ events = <<>>
    /\ arg \in RenderCalls
    /\ ret = <<>>
    /\ \E tree \in AssembleTrees : tasks = <<ReturnedCall(arg, tree)>>

NextRender ==
    \/ StartRenders
    \/ RenderStart
    \/ RenderEnd
    \/ FinishRun

SpecRender == InitRender /\ [][NextRender]_vars

(***************************************************************************)
(* The crawl of generatePDF called as a library function, without          *)
(* splitSections and with concurrentLimit from 1 to MaxLimit: every        *)
(* crawlLinks call has a limiter of its own for the calls it makes, and    *)
(* all calls navigate ctx.page.                                            *)
(***************************************************************************)
SharedPageCalls == [caller : {"api"}, concurrentLimit : 1..MaxLimit, splitSections : {FALSE}]

InitSharedPage ==
    /\ pc = "crawling"
    /\ mainURL = normalizeURL(MainArg)
    /\ urlPattern = prefixPattern(normalizeURL(MainArg))
    /\ browser = "open"
    /\ site = <<>>
    /\ visited = {normalizeURL(MainArg)}
    /\ stack = <<>>
    /\ fetchLog = <<>>
    /\ sectionTree = NoTree
    /\ sectionTrees = <<>>
    /\ sec = 0
    /\ urls = <<>>
    /\ processedUrls = {}
    /\ pdfDoc = <<>>
    /\ renderLog = <<>>
    /\ files = <<>>
    /\ reported = <<>>
    /\ faults = 0
    /\ visit = <<>>
    /\ events = <<>>
    /\ arg \in SharedPageCalls
    /\ ret = <<>>
    /\ tasks = << [ Task("crawl", 0, normalizeURL(MainArg), 0, 0) EXCEPT !.st = "nav" ] >>

NextSharedPage ==
    \/ CrawlStart
    \/ CrawlNavEnd
    \/ CrawlReturn

SpecSharedPage == InitSharedPage /\ [][NextSharedPage]_vars

(***************************************************************************)
(* buildSectionTree on its own, from the call main makes to its return, on *)
(* a site with a fixed link graph.  Every await of getSectionLinks settles *)
(* (page.goto and waitForSelector have timeouts, the delays are timers),   *)
(* and the event loop then resumes the call: a call that is still running  *)
(* takes its next step.  A step of the call is possible exactly while      *)
(* pc = "build" (the guards of BuildSectionTreeCall and                    *)
(* BuildSectionTreeReturn cover every stack), so the weak fairness of      *)
(* NextBuild is written with that condition in place of its enabledness.   *)
(***************************************************************************)
InitBuild ==
    /\ pc = "build"
    /\ mainURL = normalizeURL(MainArg)
    /\ urlPattern = prefixPattern(normalizeURL(MainArg))
    /\ browser = "open"
    /\ site = <<>>
    /\ visited = {}
    /\ stack = <<>>
    /\ fetchLog = <<>>
    /\ sectionTree = NoTree
    /\ sectionTrees = <<>>
    /\ sec = 0
    /\ urls = <<>>
    /\ processedUrls = {}
    /\ pdfDoc = <<>>
    /\ renderLog = <<>>
    /\ files = <<>>
    /\ reported = <<>>
    /\ faults = 0
    /\ visit = <<>>
    /\ events = <<>>
    /\ \E graph \in LinkGraphs : arg = [mainUrl |-> MainArg, urlPattern |-> "none", graph |-> graph]
    /\ ret = <<>>
    /\ tasks = <<>>

NextBuild ==
    \/ BuildSectionTreeCall
    \/ BuildSectionTreeReturn

buildRuns == pc = "build"

FairBuild == []<>(~buildRuns) \/ []<><<NextBuild>>_vars

SpecBuild == InitBuild /\ [][NextBuild]_vars /\ FairBuild

(***************************************************************************)
(* splitSectionTrees on objects.  The heap is the sequence of the objects  *)
(* made so far, a node is the index of its object, and the children of an  *)
(* object are indices.  The argument is a tree as buildSectionTree makes   *)
(* it; the call returns the sections array and leaves the heap changed by  *)
(* every object it made or wrote to.                                       *)
(***************************************************************************)
\* return { url: normalizedUrl, children }: the children exist before their parent
RECURSIVE allocTree(_, _)
RECURSIVE allocForest(_, _)
allocTree(h, tree) ==
    LET kids == allocForest(h, tree.children)
    IN  [heap |-> Append(kids.heap, [url |-> tree.url, children |-> kids.ids]),
         id   |-> Len(kids.heap) + 1]

allocForest(h, forest) ==
    IF forest = <<>> THEN [heap |-> h, ids |-> <<>>]
    ELSE LET first == allocTree(h, Head(forest))
             rest  == allocForest(first.heap, Tail(forest))
         IN  [heap |-> rest.heap, ids |-> <<first.id>> \o rest.ids]

\* the tree of values that the object id stands for
RECURSIVE readTree(_, _)
RECURSIVE readForest(_, _)
readTree(h, id) == SectionNode(h[id].url, readForest(h, h[id].children))

readForest(h, ids) ==
    IF ids = <<>> THEN <<>> ELSE <<readTree(h, Head(ids))>> \o readForest(h, Tail(ids))

\* faulty variant: the filter without the map, the section holds the child objects
RECURSIVE leafChildrenShared(_, _)
leafChildrenShared(h, children) ==
    IF children = <<>> THEN [heap |-> h, ids |-> <<>>]
    ELSE LET rest == leafChildrenShared(h, Tail(children))
         IN  IF Len(h[Head(children)].children) = 0
             THEN [heap |-> h, ids |-> <<Head(children)>> \o rest.ids]
             ELSE rest

\* node.children.filter(child => child.children.length === 0)
\*              .map(child => ({ url: normalizeURL(child.url), children: [] }))
RECURSIVE leafChildrenOnHeap(_, _)
leafChildrenOnHeap(h, children) ==
    IF children = <<>> THEN [heap |-> h, ids |-> <<>>]
    ELSE LET child == h[Head(children)]
         IN  IF Len(child.children) = 0
             THEN LET made == Append(h, SectionNode(normalizeURL(child.url), <<>>))
                      rest == leafChildrenOnHeap(made, Tail(children))
                  IN  [heap |-> rest.heap, ids |-> <<Len(made)>> \o rest.ids]
             ELSE leafChildrenOnHeap(h, Tail(children))

RECURSIVE splitSectionTreesOnHeap(_, _, _, _)
RECURSIVE splitSubsectionsOnHeap(_, _, _, _)
splitSectionTreesOnHeap(h, node, sections, depth) ==
    LET made        == Append(h, SectionNode(normalizeURL(h[node].url), <<>>))
        sectionNode == Len(made)
        isPushed    == emitsSection(h[node], depth)
        leafChildren == leafChildrenOnHeap(made, made[node].children)
        after       == IF isPushed
                       THEN [leafChildren.heap EXCEPT ![sectionNode].children = leafChildren.ids]
                       ELSE made
        pushed      == IF isPushed THEN Append(sections, sectionNode) ELSE sections
        subsectionChildren ==
            SelectSeq(after[node].children, LAMBDA child : Len(after[child].children) > 0)
    IN  splitSubsectionsOnHeap(after, subsectionChildren, pushed, depth)

splitSubsectionsOnHeap(h, subs, sections, depth) ==
    IF subs = <<>> THEN [heap |-> h, sections |-> sections]
    ELSE LET done == splitSectionTreesOnHeap(h, Head(subs), sections, depth + 1)
         IN  splitSubsectionsOnHeap(done.heap, Tail(subs), done.sections, depth)

InitSplitHeap ==
    /\ pc = "splitHeap"
    /\ mainURL = <<>>
    /\ urlPattern = prefixPattern(<<>>)
    /\ browser = "open"
    /\ site = <<>>
    /\ visited = {}
    /\ stack = <<>>
    /\ fetchLog = <<>>
    /\ sectionTree \in InputTrees
    /\ sectionTrees = <<>>
    /\ sec = 0
    /\ urls = <<>>
    /\ processedUrls = {}
    /\ pdfDoc = <<>>
    /\ renderLog = <<>>
    /\ files = <<>>
    /\ reported = <<>>
    /\ faults = 0
    /\ visit = <<>>
    /\ events = <<>>
    /\ arg = LET built == allocTree(<<>>, sectionTree)
             IN  [heap |-> built.heap, node |-> built.id]
    /\ ret = <<>>
    /\ tasks = <<>>

\* const sectionTrees = splitSectionTrees(sectionTree), with the heap it leaves
SplitOnHeap ==
    /\ pc = "splitHeap"
    /\ ret' = splitSectionTreesOnHeap(arg.heap, arg.node, <<>>, 0)
    /\ pc' = "returned"
    /\ UNCHANGED <<mainURL, urlPattern, browser, buildVars, assembleVars, arg, crawlVars, visitVars>>

NextSplitHeap == SplitOnHeap

SpecSplitHeap == InitSplitHeap /\ [][NextSplitHeap]_vars

(***************************************************************************)
(* One call of getSectionLinks, crawlLinks or generateSinglePDF at the     *)
(* grain of its awaits.  arg is the call and the page it meets: gotoFails  *)
(* failed attempts of page.goto before the page would load, contentAfter   *)
(* failed waits before contentDiv is there, whether 'body' is found,       *)
(* whether page.pdf succeeds, and the anchors of the page with the region  *)
(* each lies in.  visit holds the locals of the call, events what it did.  *)
(***************************************************************************)
VisitPlaces == {"getSectionLinks", "crawlLinks", "generateSinglePDF"}

\* for (let attempt = 1; attempt <= 5; attempt++) around waitForSelector(contentDiv)
MaxSelectorAttempts == 5

\* the anchors of one page
MaxPageAnchors == 2

Regions == {"content", "nav", "other"}

VisitHrefs == {A, AB}

PageAnchors == [href : VisitHrefs, region : Regions]

\* contentDiv is there at once, after one failed wait, or not at all
ContentAfterCounts == {0, 1, MaxSelectorAttempts}

Pages ==
    { page \in [gotoFails : NavFailCounts, contentAfter : ContentAfterCounts,
                bodyFound : BOOLEAN, pdfOk : BOOLEAN,
                anchors : SeqsUpTo(PageAnchors, MaxPageAnchors)] :
        \* anchors inside contentDiv need contentDiv
        /\ (\E i \in 1..Len(page.anchors) : page.anchors[i].region = "content")
               => page.contentAfter < MaxSelectorAttempts
        \* a page with anchors has a body
        /\ page.anchors # <<>> => page.bodyFound }

VisitCalls ==
    { call \in [place : VisitPlaces, url : {R}, page : Pages] :
        \* generateSinglePDF does not look at anchors, the other two make no PDF
        IF call.place = "generateSinglePDF"
        THEN call.page.anchors = <<>> /\ call.page.bodyFound
        ELSE call.page.pdfOk }

Event(op, of, ok, ms) == [op |-> op, of |-> of, ok |-> ok, ms |-> ms]

hrefsIn(anchors, region) ==
    LET inRegion == SelectSeq(anchors, LAMBDA a : a.region = region)
    IN  [i \in 1..Len(inRegion) |-> inRegion[i].href]

hrefsOf(anchors) == [i \in 1..Len(anchors) |-> anchors[i].href]

\* faulty variant: the delays of the earlier crawlLinks, 1000 * Math.pow(2, attempt - 1)
backoffDelayFirstVersion(attempt) == 1000 * 2 ^ (attempt - 1)

\* await delay(1000 * Math.pow(2, attempt))
backoffDelay(attempt) == 1000 * 2 ^ attempt

\* faulty variant: the content selector is waited for once
contentLoopStopsAtOnce(attempt) == FALSE

\* for (let attempt = 1; attempt <= 5; attempt++) around waitForSelector(contentDiv)
contentLoopContinues(attempt) == attempt < MaxSelectorAttempts

\* faulty variant: the links are collected, or the PDF made, right after the selector
stepAfterSelectorSkipsScroll(place) == IF place = "generateSinglePDF" THEN "pdf" ELSE "extract"

\* after the selector chain: page.evaluate(scrollTo), then delay(15000)
stepAfterSelector(place) == "scroll"

\* which of the three queries of the extraction gives the links
linksRegion(anchors) ==
    IF hrefsIn(anchors, "content") # <<>> THEN "content"
    ELSE IF hrefsIn(anchors, "nav") # <<>> THEN "nav"
    ELSE "body"

\* the page.evaluate that collects the links: contentLinks, else navLinks, else the
\* anchors of body (getSectionLinks: body a[href^=baseUrl]; crawlLinks: matching ones)
evaluateLinks(place, url, pattern, anchors) ==
    LET contentLinks == hrefsIn(anchors, "content")
        navLinks     == hrefsIn(anchors, "nav")
        bodyLinks    == IF place = "getSectionLinks"
                        THEN SelectSeq(hrefsOf(anchors), LAMBDA href : startsWith(href, url))
                        ELSE SelectSeq(hrefsOf(anchors), LAMBDA href : patternTest(pattern, href))
        links        == IF contentLinks # <<>> THEN contentLinks
                        ELSE IF navLinks # <<>> THEN navLinks
                        ELSE bodyLinks
    IN  SelectSeq(links, LAMBDA href : patternTest(pattern, href))

InitVisit ==
    /\ pc = "visit"
    /\ mainURL = R
    /\ urlPattern = prefixPattern(R)
    /\ browser = "open"
    /\ site = <<>>
    /\ visited = {}
    /\ stack = <<>>
    /\ fetchLog = <<>>
    /\ sectionTree = NoTree
    /\ sectionTrees = <<>>
    /\ sec = 0
    /\ urls = <<>>
    /\ processedUrls = {}
    /\ pdfDoc = <<>>
    /\ renderLog = <<>>
    /\ files = <<>>
    /\ reported = <<>>
    /\ faults = 0
    /\ arg \in VisitCalls
    /\ ret = <<>>
    /\ tasks = <<>>
    /\ visit = [at |-> IF arg.place = "generateSinglePDF" THEN "newPage" ELSE "goto",
                attempt |-> 1, pageLoaded |-> FALSE, selectorFound |-> FALSE,
                found |-> "none", threw |-> FALSE, links |-> <<>>, pages |-> 0]
    /\ events = <<>>

visitFrame == <<pc, mainURL, urlPattern, browser, buildVars, assembleVars, apiVars, crawlVars>>

\* const newPage = await ctx.browser.newPage()
VisitNewPage ==
    /\ pc = "visit"
    /\ visit.at = "newPage"
    /\ events' = Append(events, Event("newPage", "-", TRUE, 0))
    /\ visit' = [visit EXCEPT !.at = "goto"]
    /\ UNCHANGED visitFrame

\* faulty variant: one attempt more
gotoLoopOneMore(attempt) == attempt <= MaxAttempts

\* for (let attempt = 1; attempt <= 5; attempt++) around page.goto
gotoLoopContinues(attempt) == attempt < MaxAttempts

\* one page.goto; in crawlLinks and generateSinglePDF one turn of the retry loop,
\* with the delay of its catch block
VisitGoto ==
    /\ pc = "visit"
    /\ visit.at = "goto"
    /\ LET loaded == visit.attempt > arg.page.gotoFails
           went   == Append(events, Event("goto", "-", loaded, 0))
       IN  IF loaded
           THEN /\ events' = went
                /\ visit' = [visit EXCEPT !.pageLoaded = TRUE, !.attempt = 1, !.at = "content"]
           ELSE IF arg.place = "getSectionLinks"
           THEN /\ events' = went
                /\ visit' = [visit EXCEPT !.threw = TRUE, !.at = "catch"]
           ELSE /\ events' = Append(went, Event("delay", "goto", TRUE, backoffDelay(visit.attempt)))
                /\ visit' = IF gotoLoopContinues(visit.attempt)
                            THEN [visit EXCEPT !.attempt = @ + 1]
                            ELSE [visit EXCEPT !.threw = TRUE, !.at = "catch"]
    /\ UNCHANGED visitFrame

\* one page.waitForSelector(contentDiv); in getSectionLinks and crawlLinks one turn of
\* the loop, with the delay of its catch block
VisitWaitContent ==
    /\ pc = "visit"
    /\ visit.at = "content"
    /\ LET appeared == visit.attempt > arg.page.contentAfter
           waited   == Append(events, Event("waitForSelector", "content", appeared, 0))
       IN  IF appeared
           THEN /\ events' = waited
                /\ visit' = [visit EXCEPT !.selectorFound = TRUE, !.found = "content",
                                          !.at = stepAfterSelector(arg.place)]
           ELSE IF arg.place = "generateSinglePDF"
           THEN /\ events' = waited
                /\ visit' = [visit EXCEPT !.threw = TRUE, !.at = "catch"]
           ELSE /\ events' = Append(waited, Event("delay", "content", TRUE, 5000))
                /\ visit' = IF contentLoopContinues(visit.attempt)
                            THEN [visit EXCEPT !.attempt = @ + 1]
                            ELSE [visit EXCEPT !.at = "nav"]
    /\ UNCHANGED visitFrame

\* if (!selectorFound): page.waitForSelector(navDiv)
VisitWaitNav ==
    /\ pc = "visit"
    /\ visit.at = "nav"
    /\ LET appeared == hrefsIn(arg.page.anchors, "nav") # <<>>
       IN  /\ events' = Append(events, Event("waitForSelector", "nav", appeared, 0))
           /\ visit' = IF appeared
                       THEN [visit EXCEPT !.selectorFound = TRUE, !.found = "nav", !.at = stepAfterSelector(arg.place)]
                       ELSE [visit EXCEPT !.at = "body"]
    /\ UNCHANGED visitFrame

\* the catch block of the navigation selector: page.waitForSelector('body')
VisitWaitBody ==
    /\ pc = "visit"
    /\ visit.at = "body"
    /\ events' = Append(events, Event("waitForSelector", "body", arg.page.bodyFound, 0))
    /\ visit' = IF arg.page.bodyFound
                THEN [visit EXCEPT !.found = "body", !.at = stepAfterSelector(arg.place)]
                ELSE [visit EXCEPT !.threw = TRUE, !.at = "catch"]
    /\ UNCHANGED visitFrame

\* page.evaluate(() => window.scrollTo(0, document.body.scrollHeight))
VisitScroll ==
    /\ pc = "visit"
    /\ visit.at = "scroll"
    /\ events' = Append(events, Event("scroll", "-", TRUE, 0))
    /\ visit' = [visit EXCEPT !.at = "settle"]
    /\ UNCHANGED visitFrame

\* await delay(15000)
VisitSettle ==
    /\ pc = "visit"
    /\ visit.at = "settle"
    /\ events' = Append(events, Event("delay", "settle", TRUE, 15000))
    /\ visit' = [visit EXCEPT !.at = IF arg.place = "generateSinglePDF" THEN "pdf" ELSE "extract"]
    /\ UNCHANGED visitFrame

\* the links are collected, normalized and filtered; getSectionLinks returns them
VisitExtract ==
    /\ pc = "visit"
    /\ visit.at = "extract"
    /\ LET raw == evaluateLinks(arg.place, arg.url, urlPattern, arg.page.anchors)
           links == IF arg.place = "getSectionLinks"
                    THEN extractLinks(arg.url, urlPattern, raw)
                    ELSE dedupe(mapNormalizeURL(raw))
       IN  /\ events' = Append(events, Event("extract", linksRegion(arg.page.anchors), TRUE, 0))
           /\ visit' = [visit EXCEPT !.links = links, !.at = "returned"]
    /\ UNCHANGED visitFrame

\* pdfBytes = await newPage.pdf(...)
VisitPdf ==
    /\ pc = "visit"
    /\ visit.at = "pdf"
    /\ events' = Append(events, Event("pdf", "-", arg.page.pdfOk, 0))
    /\ visit' = IF arg.page.pdfOk
                THEN [visit EXCEPT !.pages = 1, !.at = "finally"]
                ELSE [visit EXCEPT !.threw = TRUE, !.at = "catch"]
    /\ UNCHANGED visitFrame

\* faulty variant: the catch block returns to the caller at once
stepAfterCatchReturns(place) == "returned"

\* generateSinglePDF has a finally block, which runs after the return of the catch
\* block; getSectionLinks and crawlLinks have none
stepAfterCatch(place) == IF place = "generateSinglePDF" THEN "finally" ELSE "returned"

\* catch (error): return [] or Buffer.from([])
VisitCatch ==
    /\ pc = "visit"
    /\ visit.at = "catch"
    /\ visit' = [visit EXCEPT !.links = <<>>, !.pages = 0, !.at = stepAfterCatch(arg.place)]
    /\ UNCHANGED events
    /\ UNCHANGED visitFrame

\* finally { await newPage.close(); await delay(2000) }
VisitFinally ==
    /\ pc = "visit"
    /\ visit.at = "finally"
    /\ events' = events \o << Event("close", "-", TRUE, 0), Event("delay", "finally", TRUE, 2000) >>
    /\ visit' = [visit EXCEPT !.at = "returned"]
    /\ UNCHANGED visitFrame

NextVisit ==
    \/ VisitNewPage
    \/ VisitGoto
    \/ VisitWaitContent
    \/ VisitWaitNav
    \/ VisitWaitBody
    \/ VisitScroll
    \/ VisitSettle
    \/ VisitExtract
    \/ VisitPdf
    \/ VisitCatch
    \/ VisitFinally

SpecVisit == InitVisit /\ [][NextVisit]_vars

(***************************************************************************)
(* Properties                                                              *)
(***************************************************************************)
Range(f) == {f[i] : i \in DOMAIN f}

\* the nodes of a tree, parents before children, siblings in order
RECURSIVE treeNodes(_)
RECURSIVE forestNodes(_)
treeNodes(n) == <<n>> \o forestNodes(n.children)

forestNodes(f) == IF f = <<>> THEN <<>> ELSE treeNodes(Head(f)) \o forestNodes(Tail(f))

urlsOfNodes(ns) == [i \in 1..Len(ns) |-> ns[i].url]

\* the URLs of one emitted section tree: its root, then its children
urlsOfSection(s) == <<s.url>> \o childUrlsOf(s.children)

RECURSIVE urlsOfSections(_)
urlsOfSections(ss) ==
    IF ss = <<>> THEN <<>> ELSE urlsOfSection(Head(ss)) \o urlsOfSections(Tail(ss))

occurrences(xs, x) == Cardinality({i \in 1..Len(xs) : xs[i] = x})

sameMultiset(xs, ys) ==
    /\ Len(xs) = Len(ys)
    /\ \A x \in Range(xs) \cup Range(ys) : occurrences(xs, x) = occurrences(ys, x)

splitDone == pc = "section" /\ sec = 1

\* C1: the section trees split from a built tree cover exactly the URLs of the tree,
\* and no URL occurs in two different section trees.
C1_SplitOfBuiltTreeIsPartition ==
    (pc \in {"section", "urls", "done"}) =>
        /\ UNION {Range(urlsOfSection(sectionTrees[i])) : i \in 1..Len(sectionTrees)}
             = Range(urlsOfNodes(treeNodes(sectionTree)))
        /\ \A i, j \in 1..Len(sectionTrees) :
             i # j => Range(urlsOfSection(sectionTrees[i]))
                        \cap Range(urlsOfSection(sectionTrees[j])) = {}

\* C2: for any input tree, the URLs of the emitted section trees (root once, each
\* child once) are, as a multiset, the normalized URLs of the nodes of the input:
\* no node is omitted and none is emitted twice.
C2_SplitPlacesEveryNodeOnce ==
    splitDone =>
        sameMultiset(urlsOfSections(sectionTrees),
                     mapNormalizeURL(urlsOfNodes(treeNodes(sectionTree))))

\* a tree with a leaf child, a sub-section and a grandchild has been split
C2_Witness ==
    /\ splitDone
    /\ Len(sectionTree.children) >= 2
    /\ \E i, j \in 1..Len(sectionTree.children) :
         /\ isLeafNode(sectionTree.children[i])
         /\ hasChildren(sectionTree.children[j])

\* the nodes of the input that are sections: the root and every node with a child
sectionNodesOf(tree) ==
    LET ns == treeNodes(tree)
        idx == {i \in 1..Len(ns) : i = 1 \/ hasChildren(ns[i])}
        RECURSIVE pick(_)
        pick(i) == IF i > Len(ns) THEN <<>>
                   ELSE IF i \in idx THEN <<ns[i]>> \o pick(i + 1) ELSE pick(i + 1)
    IN  pick(1)

\* C3: one section tree for the root and one for every other node with a child, none
\* for any other node; its children are the immediate childless children of the node.
C3_SectionsAreRootAndParents ==
    splitDone =>
        LET expected == sectionNodesOf(sectionTree)
        IN  /\ Len(sectionTrees) = Len(expected)
            /\ \A i \in 1..Len(expected) :
                 LET leaves == SelectSeq(expected[i].children, isLeafNode)
                 IN  /\ sectionTrees[i].url = normalizeURL(expected[i].url)
                     /\ sectionTrees[i].children =
                          [k \in 1..Len(leaves) |->
                              SectionNode(normalizeURL(leaves[k].url), <<>>)]

\* a childless root, and a tree with a sub-section two levels down, have been split
C3_Witness ==
    /\ splitDone
    /\ Len(sectionTrees) = 3
    /\ \E i \in 1..Len(sectionTree.children) :
         \E j \in 1..Len(sectionTree.children[i].children) :
            hasChildren(sectionTree.children[i].children[j])

\* C4: the worked scenario yields exactly three section trees: virtualization with
\* no children, vzvirtualmachine with [start()], state.enum with [stopped]; two leaf
\* children in all, no URL repeated.
C4_WorkedScenario ==
    (splitDone /\ sectionTree = WorkedTree) =>
        /\ sectionTrees =
             << SectionNode(virtualization, <<>>),
                SectionNode(vzvirtualmachine, << SectionNode(startCall, <<>>) >>),
                SectionNode(stateEnum, << SectionNode(stopped, <<>>) >>) >>
        /\ Len(urlsOfSections(sectionTrees)) - Len(sectionTrees) = 2
        /\ \A u \in Range(urlsOfSections(sectionTrees)) :
             occurrences(urlsOfSections(sectionTrees), u) = 1

C4_Witness == splitDone /\ sectionTree = WorkedTree

\* the anchors of the page u, as the site showed them when u was reached
siteAnchors(u) ==
    LET i == CHOOSE i \in 1..Len(site) : site[i].url = u
    IN  site[i].anchors

fetchFailed(u) == \E i \in 1..Len(fetchLog) : fetchLog[i].url = u /\ fetchLog[i].navFails > 0

treeBuilt == sectionTree # NoTree /\ Len(site) > 0

\* C5: no depth limit: a page reached for the first time, at whatever depth, whose
\* anchors hold matching links to other pages (and whose fetch did not fail) has its
\* matching links as its children in the returned tree.
C5_NoDepthLimit ==
    treeBuilt =>
        \A i \in 1..Len(site) :
            LET u == site[i].url
                expected == extractLinks(u, urlPattern, site[i].anchors)
            IN  ((\E k \in 1..Len(expected) : expected[k] # u) /\ ~fetchFailed(u)) =>
                    \E n \in Range(treeNodes(sectionTree)) :
                        n.url = u /\ childUrlsOf(n.children) = expected

\* C6: over all sections of one run, generateSinglePDF is invoked at most once for
\* each URL.
C6_EachUrlRenderedOnce ==
    \A i, j \in 1..Len(renderLog) :
        i # j => renderLog[i].url # renderLog[j].url

\* C7: the first URL rendered for a section is the section's own root URL.
C7_RootRenderedFirst ==
    \A i \in 1..Len(renderLog) :
        (IF i = 1 THEN TRUE ELSE renderLog[i - 1].sec # renderLog[i].sec) =>
            renderLog[i].url = sectionTrees[renderLog[i].sec].url

\* a section with two children has been rendered to the end
C7_Witness ==
    /\ pc = "done"
    /\ \E k \in 1..Len(sectionTrees) :
         /\ Len(sectionTrees[k].children) = 2
         /\ Cardinality({i \in 1..Len(renderLog) : renderLog[i].sec = k}) = 3

rootFetchExhausted == Len(fetchLog) >= 1 /\ fetchLog[1].navFails >= MaxAttempts

rootFetchFailed == Len(fetchLog) >= 1 /\ fetchLog[1].navFails > 0

C9_FetchRetriesNavigation ==
    \A i \in 1..Len(fetchLog) :
        fetchLog[i].navFails < MaxAttempts =>
            fetchLog[i].links = extractLinks(fetchLog[i].url, urlPattern,
                                             siteAnchors(fetchLog[i].url))

\* C10: getSectionLinks is invoked at most once per URL, and at most one node per
\* URL has children in the tree.
C10_FetchedOncePerUrl ==
    /\ \A i, j \in 1..Len(fetchLog) : i # j => fetchLog[i].url # fetchLog[j].url
    /\ treeBuilt =>
         LET expanded == SelectSeq(treeNodes(sectionTree), hasChildren)
         IN  \A i, j \in 1..Len(expanded) : i # j => expanded[i].url # expanded[j].url

\* an already visited page was reached again: two nodes of the tree have its URL,
\* one of them with children
C10_Witness ==
    /\ treeBuilt
    /\ LET ns == treeNodes(sectionTree)
       IN  \E i, j \in 1..Len(ns) :
             i # j /\ ns[i].url = ns[j].url /\ hasChildren(ns[i])

nonRootFetchFailed(i) == fetchLog[i].depth > 0 /\ fetchLog[i].navFails > 0

\* C11: when the fetch of a non-root page fails, the page stays in the tree as a
\* node without children, and every fetched page, its siblings included, still has
\* all the links its fetch returned as children: no other node is lost.
C11_NonRootFailureDegradesToLeaf ==
    (treeBuilt /\ \E i \in 1..Len(fetchLog) : nonRootFetchFailed(i)) =>
        LET ns == treeNodes(sectionTree)
        IN  /\ \A i \in 1..Len(fetchLog) :
                 nonRootFetchFailed(i) =>
                     /\ \E k \in 1..Len(ns) : ns[k].url = fetchLog[i].url
                     /\ \A k \in 1..Len(ns) :
                          ns[k].url = fetchLog[i].url => isLeafNode(ns[k])
            /\ \A i \in 1..Len(fetchLog) :
                 \E k \in 1..Len(ns) :
                     /\ ns[k].url = fetchLog[i].url
                     /\ childUrlsOf(ns[k].children) = dedupe(fetchLog[i].links)

\* the fetch of the first child failed, and the sibling after it was fetched and got
\* a child of its own
C11_Witness ==
    /\ treeBuilt
    /\ Len(sectionTree.children) = 2
    /\ \E i \in 1..Len(fetchLog) :
         nonRootFetchFailed(i) /\ fetchLog[i].url = sectionTree.children[1].url
    /\ isLeafNode(sectionTree.children[1])
    /\ hasChildren(sectionTree.children[2])

\* the calls of generateSinglePDF made for section k, in order
rendersOf(k) == SelectSeq(renderLog, LAMBDA e : e.sec = k)

sectionFinished(k) == pc \in {"section", "urls", "done"} /\ k < sec

\* C13: a render that returns an empty buffer does not end the section or the run:
\* every URL of a finished section was rendered once, and if any render succeeded
\* the section's file holds exactly the pages that succeeded, in order.
C13_FailedRenderIsSkipped ==
    /\ \A k \in 1..Len(sectionTrees) :
         sectionFinished(k) =>
             LET log == rendersOf(k)
                 ok  == SelectSeq(log, LAMBDA e : e.pages > 0)
             IN  /\ [i \in 1..Len(log) |-> log[i].url] = dedupe(sectionUrls(sectionTrees[k]))
                 /\ ok # <<>> =>
                      \E f \in Range(files) :
                          f.sec = k /\ f.pages = [i \in 1..Len(ok) |-> ok[i].url]
    /\ renderLog # <<>> => pc # "failed"

\* the render of the first URL of a section failed, a later URL of the same section
\* was rendered, and the file of the section was written
C13_Witness ==
    \E k \in 1..Len(sectionTrees) :
        /\ sectionFinished(k)
        /\ Len(rendersOf(k)) >= 2
        /\ rendersOf(k)[1].pages = 0
        /\ \E f \in Range(files) : f.sec = k /\ Len(f.pages) >= 1

\* C14: when every render of a section fails, no file is written for the section,
\* the section is logged as having no pages, the following sections are assembled
\* and the run does not fail.
C14_EmptySectionWritesNoFile ==
    \A k \in 1..Len(sectionTrees) :
        (sectionFinished(k) /\ \A e \in Range(rendersOf(k)) : e.pages = 0) =>
            /\ \A f \in Range(files) : f.sec # k
            /\ \E i \in 1..Len(reported) : reported[i] = k
            /\ pc # "failed"
            /\ pc = "done" => \A j \in (k + 1)..Len(sectionTrees) : rendersOf(j) # <<>>

\* the only render of the first section failed, and the second section's file was
\* written
C14_Witness ==
    /\ pc = "done"
    /\ Len(sectionTrees) >= 2
    /\ \A e \in Range(rendersOf(1)) : e.pages = 0
    /\ \E f \in Range(files) : f.sec = 2

\* the non-root URLs rendered for section k, in order
leafRendersOf(k) ==
    LET log == SelectSeq(rendersOf(k), LAMBDA e : e.url # sectionTrees[k].url)
    IN  [i \in 1..Len(log) |-> log[i].url]

\* C15 as claimed: the leaf URLs of one artifact are rendered in strictly increasing
\* order of their code units.
C15_LeafUrlsInCodeUnitOrder ==
    \A k \in 1..Len(sectionTrees) :
        LET l == leafRendersOf(k)
        IN  \A i, j \in 1..Len(l) : i < j => codeUnitCompare(l[i], l[j]) < 0

\* C15 as amended: the leaf URLs of one artifact are rendered in strictly increasing
\* order of localeCompare, in which "a" precedes "B".
C15_LeafUrlsInLocaleOrder ==
    \A k \in 1..Len(sectionTrees) :
        LET l == leafRendersOf(k)
        IN  \A i, j \in 1..Len(l) : i < j => localeCompare(l[i], l[j]) < 0

\* a section whose children differ in letter case has been rendered: /r/a before /r/B
C15_Witness ==
    /\ pc = "done"
    /\ \E k \in 1..Len(sectionTrees) : leafRendersOf(k) = <<A, PageLowerB, PageUpperB>>

\* C16: normalizeURL is idempotent, in the URL branch and in the fallback branch.
C16_NormalizeIdempotent ==
    Len(ret) = 2 => ret[2].value = ret[1].value

\* normalizeURL was applied twice to a URL with trailing slashes and a fragment, and
\* twice to a string that new URL rejects
C16_Witness ==
    /\ Len(ret) = 2
    /\ arg \in { <<"O", "/", "a", "/">>, <<"a", "/", "/", "#">> }
    /\ ret[1].value # arg

\* path, query and fragment of a string: up to the first "?" or "#", from the "?" up
\* to the "#", from the "#"
partsOf(s) ==
    LET noHash == beforeHash(s)
        qAt    == firstIndexOf(noHash, {"?"})
    IN  [ path   |-> SubSeq(noHash, 1, qAt - 1),
          search |-> SubSeq(noHash, qAt, Len(noHash)),
          hash   |-> SubSeq(s, Len(noHash) + 1, Len(s)) ]

\* C17: normalizeURL removes the fragment and every trailing "/" of the path and
\* leaves the rest of the path and the query unchanged; the canonical path never
\* ends with "/", and URLs that differ only by a fragment or by trailing slashes of
\* the path have the same canonical form.
C17_StripsFragmentAndTrailingSlashes ==
    Len(ret) >= 1 =>
        LET r        == ret[1].value
            a        == partsOf(arg)
            stripped == stripTrailingSlashes(a.path) \o a.search \o a.hash
        IN  /\ ~includes(r, "#")
            /\ partsOf(r).search = a.search
            /\ partsOf(r).path = stripTrailingSlashes(a.path)
            /\ (partsOf(r).path = <<>> \/ partsOf(r).path[Len(partsOf(r).path)] # "/")
            /\ normalizeURL(beforeHash(arg)) = r
            /\ normalizeURL(stripped) = r

C19_InvalidPatternFailsFast ==
    (pc # "main" /\ arg.urlPattern = "invalid") =>
        /\ pc = "failed"
        /\ ret = Threw("Invalid urlPattern")
        /\ browser = "none"
        /\ site = <<>> /\ fetchLog = <<>> /\ renderLog = <<>>

\* main was started with a url_pattern that does not compile, and has ended
C19_Witness ==
    /\ pc = "failed"
    /\ arg.urlPattern = "invalid"
    /\ ret # <<>>

\* C20: at every place where the inclusion pattern is built, a pattern derived from
\* the main URL is escaped, so that its construction cannot fail, and a construction
\* that fails is reported as an invalid pattern.
C20_PatternNeverFailsUnreported ==
    ret # <<>> =>
        /\ arg.urlPattern = "none" => ~ret[1].threw
        /\ ret[1].threw => ret[1].report = "Invalid urlPattern"

\* the calls whose navigation is in flight
inFlight == {i \in 1..Len(tasks) : tasks[i].st = "nav"}

\* C12: in a run started by main at most one navigation is in flight at any moment,
\* whether it belongs to buildSectionTree, crawlLinks or generateSinglePDF.
C12_OneNavigationInFlight ==
    arg.caller = "main" => Cardinality(inFlight) <= 1

\* in a run of main a crawl found two links on one page, and the second of them is
\* being navigated after the first has returned
C12_Witness ==
    /\ arg.caller = "main"
    /\ \E i \in inFlight :
         /\ tasks[i].kind = "crawl"
         /\ \E j \in childTasks(tasks[i].parent) : j < i /\ tasks[j].st = "done"

\* the tree that was built is a root without children, and it has been split
childlessRootSplit == pc \in {"section", "urls", "done"} /\ isLeafNode(sectionTree)

\* C21 as stated: a root without children gives exactly one section tree, the root
\* with no children, and the run writes exactly one file, holding just the root page.
C21_ChildlessRootGivesOneArtifact ==
    childlessRootSplit =>
        /\ sectionTrees = <<SectionNode(sectionTree.url, <<>>)>>
        /\ pc = "done" => /\ Len(files) = 1
                          /\ files[1].pages = <<sectionTree.url>>

\* C21: a root without children gives exactly one section tree, the root with no
\* children; the run renders the root page and nothing else, and writes one file with
\* just that page when the render gave pages, and no file when it did not.
C21_ChildlessRootGivesOneSection ==
    childlessRootSplit =>
        /\ sectionTrees = <<SectionNode(sectionTree.url, <<>>)>>
        /\ pc = "done" =>
             /\ [i \in 1..Len(renderLog) |-> renderLog[i].url] = <<sectionTree.url>>
             /\ files = IF renderLog[1].pages > 0
                        THEN << [sec |-> 1, slug |-> generateSlug(sectionTree.url),
                                 pages |-> <<sectionTree.url>>] >>
                        ELSE <<>>

\* a run whose tree was a root without children has ended with its one file written
C21_Witness ==
    /\ childlessRootSplit
    /\ pc = "done"
    /\ Len(files) = 1

\* the URL list of document k: of section k, or (k = 0) of the single document
documentUrls(k) ==
    IF k = 0
    THEN sortByLocaleCompare(dedupe(mapNormalizeURL(tasks[1].result)))
    ELSE sectionUrls(sectionTrees[k])

\* the URLs of document k whose render gave pages
renderedWithPages(k) ==
    {renderLog[i].url : i \in {j \in 1..Len(renderLog) :
                                  renderLog[j].sec = k /\ renderLog[j].pages > 0}}

pagesInListOrder(k) ==
    SelectSeq(dedupe(documentUrls(k)), LAMBDA u : u \in renderedWithPages(k))

\* renderLog holds the renders in the order of their completion
completedOutOfOrder(k) ==
    \E i, j \in 1..Len(renderLog) :
        /\ i < j
        /\ renderLog[i].sec = k /\ renderLog[j].sec = k
        /\ renderLog[i].pages > 0 /\ renderLog[j].pages > 0
        /\ localeCompare(renderLog[j].url, renderLog[i].url) < 0

\* C22: the pages of an output document are those of the renders that gave pages, in
\* the order of the document's URL list, in whatever order the renders completed.
C22_MergedInListOrder ==
    pc = "done" =>
        IF arg.splitSections
        THEN \A i \in 1..Len(files) : files[i].pages = pagesInListOrder(files[i].sec)
        ELSE pdfDoc = pagesInListOrder(0)

\* two renders of the single document completed in the opposite order of the URL
\* list, and both are in the document
C22_Witness ==
    /\ pc = "done"
    /\ ~arg.splitSections
    /\ completedOutOfOrder(0)
    /\ Len(pdfDoc) >= 2

\* the objects a section tree is made of: its root object and its children
objectsOfSections(h, sections) ==
    UNION { {sections[i]} \cup Range(h[sections[i]].children) : i \in 1..Len(sections) }

\* C23: splitSectionTrees leaves every object of its input as it was, no emitted
\* section tree contains an object of the input, and the emitted trees are the
\* sections of the input tree.
C23_SplitLeavesInputUntouched ==
    pc = "returned" =>
        /\ \A id \in 1..Len(arg.heap) : ret.heap[id] = arg.heap[id]
        /\ readTree(ret.heap, arg.node) = sectionTree
        /\ objectsOfSections(ret.heap, ret.sections) \cap (1..Len(arg.heap)) = {}
        /\ readForest(ret.heap, ret.sections) = splitSectionTrees(sectionTree, <<>>, 0)

\* a tree whose root has a childless child and a child with children was split: two
\* sections were emitted and the first has a child
C23_Witness ==
    /\ pc = "returned"
    /\ Len(ret.sections) >= 2
    /\ Len(ret.heap[ret.sections[1]].children) >= 1

\* the delays waited after failed navigation attempts, in order
gotoDelays == SelectSeq(events, LAMBDA e : e.op = "delay" /\ e.of = "goto")

\* C24: in the navigation retry loops the delay after the n-th failed attempt is
\* 2^(n-1) seconds, so that 1s, 2s, 4s and 8s are waited before the attempts 2 to 5,
\* and no delay is longer than 16s.
C24_BackoffStartsAtOneSecond ==
    \A n \in 1..Len(gotoDelays) :
        /\ gotoDelays[n].ms = 1000 * 2 ^ (n - 1)
        /\ gotoDelays[n].ms <= 16000

\* the canonical forms of the anchors of the page u that match the inclusion pattern
matchingCanonical(u) ==
    {normalizeURL(href) : href \in {h \in Range(siteAnchors(u)) : patternTest(urlPattern, h)}}

\* C25: for a page that loaded, getSectionLinks returns exactly the distinct canonical
\* forms of the anchors that match the inclusion pattern: none is dropped, nothing
\* else is returned, and nothing is returned twice.
C25_FetchReturnsAllMatchingLinks ==
    \A i \in 1..Len(fetchLog) :
        fetchLog[i].navFails = 0 =>
            /\ Range(fetchLog[i].links) = matchingCanonical(fetchLog[i].url)
            /\ \A j, k \in 1..Len(fetchLog[i].links) :
                 j # k => fetchLog[i].links[j] # fetchLog[i].links[k]

\* the calls of waitForSelector made so far, in order
selectorWaits == SelectSeq(events, LAMBDA e : e.op = "waitForSelector")

fetchStep == arg.place \in {"getSectionLinks", "crawlLinks"}

\* C26: the fetch step waits for the content selector first, up to 5 times with a
\* delay of 5 s after each failed wait; it waits for the navigation selector only
\* after 5 failed content waits, and for body only after the navigation selector has
\* failed too; after a wait that succeeded it waits for nothing else.
C26_SelectorFallbackOrder ==
    fetchStep =>
        LET waits == selectorWaits
        IN  /\ \A i \in 1..Len(waits) :
                 /\ i <= MaxSelectorAttempts => waits[i].of = "content"
                 /\ i = MaxSelectorAttempts + 1 => waits[i].of = "nav"
                 /\ i = MaxSelectorAttempts + 2 => waits[i].of = "body"
                 /\ i <= MaxSelectorAttempts + 2
                 /\ i < Len(waits) => ~waits[i].ok
            /\ \A p \in 1..Len(events) :
                 (events[p].op = "waitForSelector" /\ events[p].of = "content" /\ ~events[p].ok)
                     => (p < Len(events) /\ events[p + 1] = Event("delay", "content", TRUE, 5000))

\* a fetch whose content and navigation selectors were not found went on to body and
\* returned
C26_Witness ==
    /\ fetchStep
    /\ visit.at = "returned"
    /\ Len(selectorWaits) = MaxSelectorAttempts + 2
    /\ selectorWaits[MaxSelectorAttempts + 2].ok

\* C27: whenever the fetch step collects links, the page was loaded, then scrolled to
\* the bottom, then left to settle for 15 s, and the collection comes right after the
\* settle delay, whichever selector was located.
C27_ScrollAndSettleBeforeExtract ==
    fetchStep =>
        \A p \in 1..Len(events) :
            events[p].op = "extract" =>
                /\ p >= 4
                /\ events[p - 1] = Event("delay", "settle", TRUE, 15000)
                /\ events[p - 2] = Event("scroll", "-", TRUE, 0)
                /\ \E g \in 1..(p - 3) :
                     /\ events[g] = Event("goto", "-", TRUE, 0)
                     /\ \A q \in (g + 1)..p : events[q].op # "goto"

\* links were collected on a page where the navigation selector, not the content
\* selector, was located
C27_Witness ==
    /\ fetchStep
    /\ visit.found = "nav"
    /\ \E p \in 1..Len(events) : events[p].op = "extract"

\* the canonical forms of the anchors of the page that lie in region
canonicalIn(region) ==
    {normalizeURL(href) : href \in Range(hrefsIn(arg.page.anchors, region))}

\* C28: the links the fetch step returns come from the region its selector chain
\* located: after the content selector was found only anchors of the content region
\* are returned, and the navigation links or the anchors of body are used only when
\* the selectors before them were not found.
C28_LinksComeFromLocatedRegion ==
    (fetchStep /\ visit.at = "returned" /\ ~visit.threw) =>
        /\ visit.found = "content" => Range(visit.links) \subseteq canonicalIn("content")
        /\ visit.found = "nav" => Range(visit.links) \subseteq canonicalIn("nav")

\* C29: the tree returned by buildSectionTree has at most one node for each URL,
\* however many pages link to it.
C29_OneNodePerUrl ==
    treeBuilt =>
        LET nodeUrls == urlsOfNodes(treeNodes(sectionTree))
        IN  \A i, j \in 1..Len(nodeUrls) : i # j => nodeUrls[i] # nodeUrls[j]

\* no node of the tree has, below it, a node of the same URL that has children
noUrlExpandedBeneathItself(tree) ==
    \A n \in Range(treeNodes(tree)) :
        \A d \in Range(forestNodes(n.children)) :
            d.url = n.url => isLeafNode(d)

\* C30: buildSectionTree returns, whatever the pages link to (themselves, their
\* ancestors, each other), and in the tree it returns no URL is expanded beneath
\* itself.
C30_BuildTerminatesWithoutReexpansion ==
    /\ (pc = "build") ~> (pc # "build")
    /\ [](treeBuilt => noUrlExpandedBeneathItself(sectionTree))

\* a tree was built from a site where a page links to itself or to an ancestor: the
\* URL is there again, as a childless node
C30_Witness ==
    /\ treeBuilt
    /\ \E n \in Range(treeNodes(sectionTree)) :
         \E d \in Range(forestNodes(n.children)) : d.url = n.url

\* a render task that is the first of its section leaves the queue: the loop over the
\* sections has made the set of the next section
sectionSetMade ==
    /\ arg.splitSections
    /\ \E i \in 1..Len(tasks) :
         /\ tasks[i].kind = "render"
         /\ tasks[i].st = "queued"
         /\ tasks'[i].st # "queued"
         /\ \A j \in 1..Len(tasks) :
              (tasks[j].kind = "render" /\ tasks[j].sec = tasks[i].sec) => i <= j

\* C31: in one run the visited set never loses an entry, and a processed-URL set never
\* loses one while it is in use (each section has a set of its own); a step adds at
\* most one URL, and a call on a URL that is already in the set leaves the set as it is.
C31_SetsOnlyGrow ==
    [][ /\ visited \subseteq visited'
        /\ Cardinality(visited' \ visited) <= 1
        /\ sectionSetMade \/ processedUrls \subseteq processedUrls'
        /\ Cardinality(processedUrls' \ processedUrls) <= 1 ]_vars

\* both sets hold two URLs, and a call was skipped because its URL was in the set
C31_Witness ==
    /\ Cardinality(visited) >= 2
    /\ Cardinality(processedUrls) >= 2
    /\ \E i \in 1..Len(tasks) :
         /\ tasks[i].kind = "crawl"
         /\ tasks[i].st = "done"
         /\ tasks[i].result = <<>>
         /\ \E j \in 1..(i - 1) : tasks[j].kind = "crawl" /\ tasks[j].url = tasks[i].url

\* the URLs rendered for section k, in the order of the calls of generateSinglePDF
renderedFor(k) ==
    LET calls == SelectSeq(renderLog, LAMBDA e : e.sec = k)
    IN  [i \in 1..Len(calls) |-> calls[i].url]

\* C32: for one section generateSinglePDF is called at most once for each URL, also
\* when the URL list of the section holds a URL twice.
C32_EachUrlRenderedOncePerSection ==
    \A k \in 1..Len(sectionTrees) :
        LET rendered == renderedFor(k)
        IN  \A i, j \in 1..Len(rendered) : i # j => rendered[i] # rendered[j]

\* a section whose root is also among its children has been rendered to the end
C32_Witness ==
    \E k \in 1..Len(sectionTrees) :
        /\ k < sec
        /\ \E i \in 1..Len(sectionTrees[k].children) :
             sectionTrees[k].children[i].url = sectionTrees[k].url
        /\ renderedFor(k) # <<>>

\* the navigation attempts of the call so far
gotoAttempts == SelectSeq(events, LAMBDA e : e.op = "goto")

retries == arg.place \in {"crawlLinks", "generateSinglePDF"}

\* C33: a call of crawlLinks or generateSinglePDF navigates at most MaxAttempts times
\* and not again after an attempt that succeeded; when all MaxAttempts attempts have
\* failed the call goes to its own catch block and returns no links and no pages.
C33_BoundedRetriesThenEmptyResult ==
    retries =>
        /\ Len(gotoAttempts) <= MaxAttempts
        /\ \A i \in 1..Len(gotoAttempts) : gotoAttempts[i].ok => i = Len(gotoAttempts)
        /\ (Len(gotoAttempts) = MaxAttempts /\ ~gotoAttempts[MaxAttempts].ok) =>
               /\ visit.threw
               /\ visit.at \in {"catch", "finally", "returned"}
               /\ visit.at = "returned" => (visit.links = <<>> /\ visit.pages = 0)

\* a call has returned after MaxAttempts failed navigations
C33_Witness ==
    /\ retries
    /\ visit.at = "returned"
    /\ Len(gotoAttempts) = MaxAttempts
    /\ ~gotoAttempts[MaxAttempts].ok

\* C34: in one run no two sections write the same file: the files written for
\* different section roots carry different slugs.
C34_SectionsWriteDifferentFiles ==
    \A i, j \in 1..Len(files) :
        sectionTrees[files[i].sec].url # sectionTrees[files[j].sec].url
            => files[i].slug # files[j].slug

\* the positions in events of the calls of op
eventsAt(op) == {i \in 1..Len(events) : events[i].op = op}

\* C35: when generateSinglePDF has returned, the page it opened with newPage has been
\* closed, whether the PDF was made, the navigation failed MaxAttempts times, the
\* content selector did not appear or page.pdf threw; no page is closed before it is
\* opened.
C35_OpenedPageIsClosed ==
    /\ \A c \in eventsAt("close") : \E o \in eventsAt("newPage") : o < c
    /\ Cardinality(eventsAt("close")) <= Cardinality(eventsAt("newPage"))
    /\ (arg.place = "generateSinglePDF" /\ visit.at = "returned") =>
           /\ Cardinality(eventsAt("newPage")) = 1
           /\ Cardinality(eventsAt("close")) = 1

\* generateSinglePDF has returned an empty buffer after an error
C35_Witness ==
    /\ arg.place = "generateSinglePDF"
    /\ visit.at = "returned"
    /\ visit.threw
    /\ visit.pages = 0
    /\ eventsAt("close") # {}

\* the crawlLinks calls between the start of their page.goto and the end of their
\* link extraction
navigating == {i \in 1..Len(tasks) : tasks[i].kind = "crawl" /\ tasks[i].st = "nav"}

\* C36: whatever concurrentLimit is, no crawlLinks call navigates the shared page
\* while another call is between its navigation and its link extraction.
C36_OneCallOnSharedPage ==
    Cardinality(navigating) <= 1

\* C37: in the tree returned by buildSectionTree no node has a child with the node's
\* own URL.
C37_NoNodeIsItsOwnChild ==
    treeBuilt =>
        \A n \in Range(treeNodes(sectionTree)) :
            \A i \in 1..Len(n.children) : n.children[i].url # n.url

\* C38: in the tree returned by buildSectionTree the URL of every child starts with
\* the URL of its parent, and so every URL of an emitted section tree starts with the
\* URL of the root of that section.
C38_ChildUrlsExtendParentUrl ==
    /\ treeBuilt =>
           \A n \in Range(treeNodes(sectionTree)) :
               \A i \in 1..Len(n.children) : startsWith(n.children[i].url, n.url)
    /\ \A k \in 1..Len(sectionTrees) :
           \A i \in 1..Len(sectionTrees[k].children) :
               startsWith(sectionTrees[k].children[i].url, sectionTrees[k].url)

\* a tree of three levels was built and split, from a site on which a page below the
\* root links back to a page that is not below it
C38_Witness ==
    /\ treeBuilt
    /\ sectionTrees # <<>>
    /\ \E i \in 1..Len(sectionTree.children) : sectionTree.children[i].children # <<>>
    /\ \E j \in 1..Len(site) : \E a \in Range(site[j].anchors) :
           /\ site[j].url # mainURL
           /\ ~startsWith(a, site[j].url)

====
